---- MODULE Spec2Model ----
(***************************************************************************)
(* DriftShell (hackterm_game.py): the node-gating and world-state          *)
(* progression engine, its command handlers and its save/load codec.       *)
(*                                                                         *)
(* The player state is the dictionary built by fresh_state; every command  *)
(* handler is an operator from a state (and its argument) to the state it  *)
(* leaves and the line it shows; every action applies one handler.         *)
(* A text the player types after decode, a cached cipher and a decoded    *)
(* result are sequences of code points; rot13, base64 and the keyword     *)
(* scan are computed on them. An optional text (last_cipher) is <<>> for  *)
(* None and <<t>> for the text t.                                         *)
(***************************************************************************)
EXTENDS Integers, Sequences, FiniteSets, TLC

\* Bound of the model: commands that would make the log longer are not taken.
MaxLog == 3

(***************************************************************************)
(* Characters. A text the program computes on (a decode argument, a cached *)
(* cipher, a decoded result) is the sequence of its code points; ids, file *)
(* names and messages are strings. Codes gives the code points of a string *)
(* of this module.                                                         *)
(***************************************************************************)
\* The characters of code points 32..95 and 97..126, in order.
AsciiLow == " !\"#$%&'()*+,-./0123456789:;<=>?@ABCDEFGHIJKLMNOPQRSTUVWXYZ[\\]^_"

AsciiHigh == "abcdefghijklmnopqrstuvwxyz{|}~"

CharAt(s, i) == SubSeq(s, i, i)

\* 1-based position of character c in alpha, 0 when absent.
Pos(c, alpha) ==
  IF \E i \in 1..Len(alpha) : CharAt(alpha, i) = c
    THEN CHOOSE i \in 1..Len(alpha) : CharAt(alpha, i) = c
    ELSE 0

\* ord(c) of a one-character string.
ord(c) ==
  IF Pos(c, AsciiLow) > 0 THEN Pos(c, AsciiLow) + 31
  ELSE IF Pos(c, AsciiHigh) > 0 THEN Pos(c, AsciiHigh) + 96
  ELSE CASE c = "\t" -> 9 [] c = "\n" -> 10 [] c = "\f" -> 12 [] c = "\r" -> 13

\* The code points of a string.
RECURSIVE Codes(_)
Codes(s) == IF s = "" THEN <<>> ELSE <<ord(CharAt(s, 1))>> \o Codes(SubSeq(s, 2, Len(s)))

\* The code points of each string of a list.
Words(list) == [i \in 1..Len(list) |-> Codes(list[i])]

(***************************************************************************)
(* World definition                                                        *)
(***************************************************************************)
ITEMS == {"badge.sig", "mask.dat", "weaver.mark", "token.key", "relay.shard", "relic.key"}

SCRIPTS == {"tracer", "spoof", "fork", "sniffer", "splice", "ghost"}

NodeIds == {"hub.home", "market.node", "weaver.den", "corp.audit",
            "lattice.cache", "perimeter.gate", "archives.arc", "core.relic"}

cipher_txt == Codes("rzore vf gur qevsg. gur nepuvir jnagf n onqtr naq n znfx.")

cache_rot13 == Codes("gur eryvp xrl jnvgf va gur pnpur.")

key_b64 == Codes("U0lHSUw6IExBVFRJQ0U=")

\* File entries: kind is the "type" key, id the script_id / item_id,
\* content is kept for cipher files only (the only content the state stores).
TextFile == [kind |-> "text", id |-> "", downloadable |-> FALSE, cipher |-> FALSE, content |-> <<>>]
CipherFile(c) == [kind |-> "text", id |-> "", downloadable |-> FALSE, cipher |-> TRUE, content |-> c]
ScriptFile(sid) == [kind |-> "script", id |-> sid, downloadable |-> TRUE, cipher |-> FALSE, content |-> <<>>]
ItemFile(iid) == [kind |-> "item", id |-> iid, downloadable |-> TRUE, cipher |-> FALSE, content |-> <<>>]

NODES ==
  [n \in NodeIds |->
    CASE n = "hub.home" ->
           [items |-> <<>>, flags |-> <<>>,
            links |-> <<"market.node", "perimeter.gate">>,
            files |-> [f \in {"readme.txt", "message.txt", "tracer.s"} |->
                        IF f = "tracer.s" THEN ScriptFile("tracer") ELSE TextFile]]
      [] n = "market.node" ->
           [items |-> <<>>, flags |-> <<"trace_open">>,
            links |-> <<"hub.home", "perimeter.gate", "weaver.den">>,
            files |-> [f \in {"stall.log", "rumor.txt", "sniffer.s", "spoof.s"} |->
                        CASE f = "sniffer.s" -> ScriptFile("sniffer")
                          [] f = "spoof.s" -> ScriptFile("spoof")
                          [] OTHER -> TextFile]]
      [] n = "weaver.den" ->
           [items |-> <<>>, flags |-> <<"sniffer_run">>,
            links |-> <<"market.node", "archives.arc", "corp.audit">>,
            files |-> [f \in {"weaver.log", "weaver.mark", "splice.s", "ghost.s"} |->
                        CASE f = "weaver.mark" -> ItemFile("weaver.mark")
                          [] f = "splice.s" -> ScriptFile("splice")
                          [] f = "ghost.s" -> ScriptFile("ghost")
                          [] OTHER -> TextFile]]
      [] n = "corp.audit" ->
           [items |-> <<>>, flags |-> <<"ghosted">>,
            links |-> <<"weaver.den">>,
            files |-> [f \in {"audit.log", "relay.shard"} |->
                        IF f = "relay.shard" THEN ItemFile("relay.shard") ELSE TextFile]]
      [] n = "lattice.cache" ->
           [items |-> <<"token.key", "weaver.mark">>, flags |-> <<"lattice_sigil">>,
            links |-> <<"archives.arc", "core.relic">>,
            files |-> [f \in {"cache.log", "cache.rot13", "relic.key"} |->
                        CASE f = "cache.rot13" -> CipherFile(cache_rot13)
                          [] f = "relic.key" -> ItemFile("relic.key")
                          [] OTHER -> TextFile]]
      [] n = "perimeter.gate" ->
           [items |-> <<>>, flags |-> <<"trace_open">>,
            links |-> <<"hub.home", "market.node", "archives.arc">>,
            files |-> [f \in {"access.log", "cipher.txt", "badge.sig"} |->
                        CASE f = "cipher.txt" -> CipherFile(cipher_txt)
                          [] f = "badge.sig" -> ItemFile("badge.sig")
                          [] OTHER -> TextFile]]
      [] n = "archives.arc" ->
           [items |-> <<"badge.sig", "mask.dat">>, flags |-> <<"ember_phrase">>,
            links |-> <<"perimeter.gate", "weaver.den", "lattice.cache">>,
            files |-> [f \in {"lore.log", "weaver.note", "key.b64", "fork.s"} |->
                        CASE f = "key.b64" -> CipherFile(key_b64)
                          [] f = "fork.s" -> ScriptFile("fork")
                          [] OTHER -> TextFile]]
      [] OTHER -> \* core.relic
           [items |-> <<"relay.shard", "relic.key">>, flags |-> <<"lattice_sigil", "forked">>,
            links |-> <<"archives.arc">>,
            files |-> [f \in {"core.log"} |-> TextFile]]]

(***************************************************************************)
(* Sequence helpers                                                        *)
(***************************************************************************)
Range(s) == {s[i] : i \in 1..Len(s)}

\* [x for x in seq if x not in set]
\* Missing with the filter left out: the whole requirement list is reported.
MissingAll(seq, set) == seq

Missing(seq, set) == SelectSeq(seq, LAMBDA x : x \notin set)

\* Optional text: Python's None, and a text that is present.
None == <<>>

Some(t) == <<t>>

\* Python truthiness of an optional text: None and "" are falsy.
Falsy(p) == p = None \/ p = Some(<<>>)


(***************************************************************************)
(* Player state and the helpers of the handlers                            *)
(***************************************************************************)
\* The handle of a player who gives none.
Ghost == Codes("ghost")

\* handle or "ghost": the handle is a text, the empty text is falsy.
fresh_state(handle) ==
  [handle |-> IF handle = <<>> THEN Ghost ELSE handle,
   location |-> "hub.home",
   inventory |-> {},
   scripts |-> {},
   flags |-> {},
   discovered |-> {"hub.home"},
   log |-> <<>>,
   visited |-> {},
   last_cipher |-> None,
   ended |-> FALSE]

\* log_event as an assignment, state["log"] = [text]: earlier entries are lost.
log_event_latest(state, text) == [state EXCEPT !.log = <<text>>]

log_event(state, text) == [state EXCEPT !.log = Append(@, text)]

\* add_flag as an assignment, state["flags"] = {flag}: earlier flags are lost.
add_flag_only(state, flag) == [state EXCEPT !.flags = {flag}]

\* state["flags"].add(flag), state["inventory"].add(item), state["scripts"].add(id)
add_flag(state, flag) == [state EXCEPT !.flags = @ \cup {flag}]

\* add_item as an assignment, state["inventory"] = {item}.
add_item_only(state, item) == [state EXCEPT !.inventory = {item}]

add_item(state, item) == [state EXCEPT !.inventory = @ \cup {item}]

add_script(state, script_id) == [state EXCEPT !.scripts = @ \cup {script_id}]

\* The loop of discover: each id in turn is added when it is not yet in
\* discovered; the ids added are returned in input order.
\* discover without the membership test: every id is reported as added.
discover_again(state, nodes) ==
  [state |-> [state EXCEPT !.discovered = @ \cup Range(nodes)], added |-> nodes]

\* discover with the return inside the loop: only the first id is looked at.
discover_head(state, nodes) ==
  IF nodes = <<>> \/ nodes[1] \in state.discovered
    THEN [state |-> state, added |-> <<>>]
    ELSE [state |-> [state EXCEPT !.discovered = @ \cup {nodes[1]}],
          added |-> <<nodes[1]>>]

RECURSIVE discover(_, _)
discover(state, nodes) ==
  IF nodes = <<>> THEN [state |-> state, added |-> <<>>]
  ELSE LET node_id == Head(nodes)
           fresh == node_id \notin state.discovered
           rest == discover(IF fresh THEN [state EXCEPT !.discovered = @ \cup {node_id}]
                                     ELSE state,
                            Tail(nodes))
       IN [state |-> rest.state,
           added |-> IF fresh THEN <<node_id>> \o rest.added ELSE rest.added]

\* Defined for the nodes of NODES; any other id raises KeyError (see Raises).
\* requirements_for with ok computed from the items alone.
requirements_for_items_only(state, node_id) ==
  LET missing_items == Missing(NODES[node_id].items, state.inventory)
      missing_flags == Missing(NODES[node_id].flags, state.flags)
  IN [ok |-> missing_items = <<>>,
      missing_items |-> missing_items,
      missing_flags |-> missing_flags]

requirements_for(state, node_id) ==
  LET missing_items == Missing(NODES[node_id].items, state.inventory)
      missing_flags == Missing(NODES[node_id].flags, state.flags)
  IN [ok |-> missing_items = <<>> /\ missing_flags = <<>>,
      missing_items |-> missing_items,
      missing_flags |-> missing_flags]

\* enter_node that also discovers the links of the node entered.
enter_node_linking(state, node_id) ==
  LET moved == [state EXCEPT !.location = node_id,
                             !.discovered = @ \cup Range(NODES[node_id].links)]
  IN IF node_id \notin state.visited
       THEN log_event([moved EXCEPT !.visited = @ \cup {node_id}], "Entered " \o node_id)
       ELSE moved

\* enter_node that logs every entry, not the first visit only.
enter_node_logging(state, node_id) ==
  log_event([state EXCEPT !.location = node_id, !.visited = @ \cup {node_id}],
            "Entered " \o node_id)

\* The state mutations of enter_node; its lookup of NODES[node_id] for the
\* banner raises KeyError after them when node_id is no node.
enter_node(state, node_id) ==
  LET moved == [state EXCEPT !.location = node_id]
  IN IF node_id \notin state.visited
       THEN log_event([moved EXCEPT !.visited = @ \cup {node_id}], "Entered " \o node_id)
       ELSE moved

current_files(state) == NODES[state.location].files

(***************************************************************************)
(* What a handler leaves: the state, the line shown (msg, with the lists   *)
(* it joins into the line in a and b), whether the download tip follows,   *)
(* and whether an exception left the handler.                              *)
(***************************************************************************)
Shown(state, msg, a, b) ==
  [state |-> state, msg |-> msg, a |-> a, b |-> b, tip |-> FALSE, raised |-> FALSE]

Raised(state, what) ==
  [state |-> state, msg |-> what, a |-> <<>>, b |-> <<>>, tip |-> FALSE, raised |-> TRUE]

\* cmd_connect that enters the node before it looks at the gate.
cmd_connect_enter_first(state, args) ==
  IF args = <<>> THEN Shown(state, "Connect where?", <<>>, <<>>)
  ELSE LET node_id == args[1] IN
    IF node_id \notin state.discovered
      THEN Shown(state, "No signal by that name.", <<>>, <<>>)
    ELSE IF node_id \notin NodeIds
      THEN Raised(state, "KeyError")
    ELSE LET req == requirements_for(state, node_id)
             entered == enter_node(state, node_id) IN
      IF ~req.ok
        THEN Shown(entered, "Access denied. Missing", req.missing_items, req.missing_flags)
        ELSE Shown(entered, ":: " \o node_id, <<>>, <<>>)

cmd_connect(state, args) ==
  IF args = <<>> THEN Shown(state, "Connect where?", <<>>, <<>>)
  ELSE LET node_id == args[1] IN
    IF node_id \notin state.discovered
      THEN Shown(state, "No signal by that name.", <<>>, <<>>)
    ELSE IF node_id \notin NodeIds
      THEN Raised(state, "KeyError")
    ELSE LET req == requirements_for(state, node_id) IN
      IF ~req.ok
        THEN Shown(state, "Access denied. Missing", req.missing_items, req.missing_flags)
        ELSE Shown(enter_node(state, node_id), ":: " \o node_id, <<>>, <<>>)

cmd_cat(state, args) ==
  IF args = <<>> THEN Shown(state, "Read which file?", <<>>, <<>>)
  ELSE LET name == args[1]
           files == current_files(state) IN
    IF name \notin DOMAIN files
      THEN Shown(state, "File not found.", <<>>, <<>>)
    ELSE LET entry == files[name] IN
      IF entry.cipher
        THEN Shown(log_event([state EXCEPT !.last_cipher = Some(entry.content)],
                             "Read cipher " \o name),
                   "content", <<name>>, <<>>)
        ELSE Shown(state, "content", <<name>>, <<>>)

cmd_download(state, args) ==
  IF args = <<>> THEN Shown(state, "Download which file?", <<>>, <<>>)
  ELSE LET name == args[1]
           files == current_files(state) IN
    IF name \notin DOMAIN files
      THEN Shown(state, "File not found.", <<>>, <<>>)
    ELSE LET entry == files[name] IN
      IF ~entry.downloadable
        THEN Shown(state, "Nothing to download here.", <<>>, <<>>)
      ELSE IF entry.kind = "script"
        THEN IF entry.id \in state.scripts
               THEN Shown(state, "Script already in your kit.", <<>>, <<>>)
               ELSE Shown(log_event(add_script(state, entry.id),
                                    "Downloaded script " \o entry.id),
                          "Downloaded script: " \o entry.id, <<>>, <<>>)
      ELSE IF entry.kind = "item"
        THEN IF entry.id \in state.inventory
               THEN Shown(state, "Item already in your kit.", <<>>, <<>>)
               ELSE Shown(log_event(add_item(state, entry.id),
                                    "Downloaded item " \o entry.id),
                          "Downloaded item: " \o entry.id, <<>>, <<>>)
      ELSE Shown(state, "Nothing to download here.", <<>>, <<>>)


(***************************************************************************)
(* Script effects                                                          *)
(***************************************************************************)
\* run_script with the guard of sniffer left out, as tracer has none.
run_script_sniffer_unguarded(state, script_id) ==
  CASE script_id = "tracer" ->
         LET d == discover(state, <<"market.node", "perimeter.gate">>) IN
         Shown(log_event(add_flag(d.state, "trace_open"),
                         "Tracer mapped the perimeter"),
               "Tracer online. Mesh resolved.", d.added, <<>>)
    [] script_id = "spoof" ->
         IF "mask.dat" \in state.inventory
           THEN Shown(state, "Mask already minted.", <<>>, <<>>)
           ELSE Shown(log_event(add_item(state, "mask.dat"),
                                "Minted mask.dat"),
                      "Mask minted: mask.dat", <<>>, <<>>)
    [] script_id = "sniffer" ->
         LET d == discover(add_flag(state, "sniffer_run"),
                           <<"weaver.den", "corp.audit", "lattice.cache">>) IN
         Shown(log_event(d.state, "Sniffer swept the quiet bands"),
               "Sniffer pulse complete.", d.added, <<>>)
    [] script_id = "splice" ->
         IF "token.key" \in state.inventory
           THEN Shown(state, "Token already forged.", <<>>, <<>>)
           ELSE LET missing == Missing(<<"badge.sig", "mask.dat", "weaver.mark">>,
                                       state.inventory) IN
                IF missing # <<>>
                  THEN Shown(state, "Splice failed. Missing: ", missing, <<>>)
                  ELSE Shown(log_event(add_item(state, "token.key"),
                                       "Spliced token.key"),
                             "Token forged: token.key", <<>>, <<>>)
    [] script_id = "ghost" ->
         IF "ghosted" \in state.flags
           THEN Shown(state, "Ghost protocol already active.", <<>>, <<>>)
         ELSE IF "weaver.mark" \notin state.inventory
           THEN Shown(state, "Ghost protocol requires weaver.mark.", <<>>, <<>>)
           ELSE LET d == discover(add_flag(state, "ghosted"),
                                  <<"corp.audit">>) IN
                Shown(log_event(d.state, "Ghosted the audit trail"),
                      "Ghost protocol active. Your trail is cold.", d.added, <<>>)
    [] script_id = "fork" ->
         IF "forked" \in state.flags
           THEN Shown(state, "Relay already forked.", <<>>, <<>>)
           ELSE LET d == discover(add_flag(state, "forked"),
                                  <<"core.relic">>) IN
                Shown(log_event(d.state, "Forked the relay to the core"),
                      "Relay forked. Core channel exposed.", d.added, <<>>)
    [] OTHER -> Shown(state, "Script returned no response.", <<>>, <<>>)

run_script(state, script_id) ==
  CASE script_id = "tracer" ->
         LET d == discover(state, <<"market.node", "perimeter.gate">>) IN
         Shown(log_event(add_flag(d.state, "trace_open"),
                         "Tracer mapped the perimeter"),
               "Tracer online. Mesh resolved.", d.added, <<>>)
    [] script_id = "spoof" ->
         IF "mask.dat" \in state.inventory
           THEN Shown(state, "Mask already minted.", <<>>, <<>>)
           ELSE Shown(log_event(add_item(state, "mask.dat"),
                                "Minted mask.dat"),
                      "Mask minted: mask.dat", <<>>, <<>>)
    [] script_id = "sniffer" ->
         IF "sniffer_run" \in state.flags
           THEN Shown(state, "Sniffer already swept the quiet bands.", <<>>, <<>>)
           ELSE LET d == discover(add_flag(state, "sniffer_run"),
                                  <<"weaver.den", "corp.audit", "lattice.cache">>) IN
                Shown(log_event(d.state, "Sniffer swept the quiet bands"),
                      "Sniffer pulse complete.", d.added, <<>>)
    [] script_id = "splice" ->
         IF "token.key" \in state.inventory
           THEN Shown(state, "Token already forged.", <<>>, <<>>)
           ELSE LET missing == Missing(<<"badge.sig", "mask.dat", "weaver.mark">>,
                                       state.inventory) IN
                IF missing # <<>>
                  THEN Shown(state, "Splice failed. Missing: ", missing, <<>>)
                  ELSE Shown(log_event(add_item(state, "token.key"),
                                       "Spliced token.key"),
                             "Token forged: token.key", <<>>, <<>>)
    [] script_id = "ghost" ->
         IF "ghosted" \in state.flags
           THEN Shown(state, "Ghost protocol already active.", <<>>, <<>>)
         ELSE IF "weaver.mark" \notin state.inventory
           THEN Shown(state, "Ghost protocol requires weaver.mark.", <<>>, <<>>)
           ELSE LET d == discover(add_flag(state, "ghosted"),
                                  <<"corp.audit">>) IN
                Shown(log_event(d.state, "Ghosted the audit trail"),
                      "Ghost protocol active. Your trail is cold.", d.added, <<>>)
    [] script_id = "fork" ->
         IF "forked" \in state.flags
           THEN Shown(state, "Relay already forked.", <<>>, <<>>)
           ELSE LET d == discover(add_flag(state, "forked"),
                                  <<"core.relic">>) IN
                Shown(log_event(d.state, "Forked the relay to the core"),
                      "Relay forked. Core channel exposed.", d.added, <<>>)
    [] OTHER -> Shown(state, "Script returned no response.", <<>>, <<>>)

\* raw[:-2] if raw.endswith(".s") else raw
StripDotS(raw) ==
  IF Len(raw) >= 2 /\ SubSeq(raw, Len(raw) - 1, Len(raw)) = ".s"
    THEN SubSeq(raw, 1, Len(raw) - 2)
    ELSE raw

\* cmd_run that puts a script run from the node into the kit.
cmd_run_keeping(state, args) ==
  IF args = <<>> THEN Shown(state, "Run which script?", <<>>, <<>>)
  ELSE LET script_id == StripDotS(args[1])
           files == current_files(state) IN
    IF script_id \in state.scripts
      THEN run_script(state, script_id)
    ELSE IF \E f \in DOMAIN files : files[f].kind = "script" /\ files[f].id = script_id
      THEN [run_script(add_script(state, script_id), script_id) EXCEPT !.tip = TRUE]
    ELSE Shown(state, "Script not found in your kit or this node.", <<>>, <<>>)

cmd_run(state, args) ==
  IF args = <<>> THEN Shown(state, "Run which script?", <<>>, <<>>)
  ELSE LET script_id == StripDotS(args[1])
           files == current_files(state) IN
    IF script_id \in state.scripts
      THEN run_script(state, script_id)
    ELSE IF \E f \in DOMAIN files : files[f].kind = "script" /\ files[f].id = script_id
      THEN [run_script(state, script_id) EXCEPT !.tip = TRUE]
    ELSE Shown(state, "Script not found in your kit or this node.", <<>>, <<>>)

cmd_home(state, args) == Shown(enter_node(state, "hub.home"), ":: hub.home", <<>>, <<>>)

\* cmd_exfiltrate without its location guard.
cmd_exfiltrate_anywhere(state, args) ==
  Shown(log_event([state EXCEPT !.ended = TRUE], "Ending: exfiltrate"),
        "You lift the relic into your shell.", <<>>, <<>>)

cmd_exfiltrate(state, args) ==
  IF state.location # "core.relic"
    THEN Shown(state, "No target to exfiltrate here.", <<>>, <<>>)
    ELSE Shown(log_event([state EXCEPT !.ended = TRUE], "Ending: exfiltrate"),
               "You lift the relic into your shell.", <<>>, <<>>)

cmd_restore(state, args) ==
  IF state.location # "core.relic"
    THEN Shown(state, "No target to restore here.", <<>>, <<>>)
    ELSE Shown(log_event([state EXCEPT !.ended = TRUE], "Ending: restore"),
               "You bind the relic back to the Drift.", <<>>, <<>>)


(***************************************************************************)
(* Text, on code points: str.lower / str.upper, " ".join, str.strip,       *)
(* codecs rot_13, base64.b64decode(validate=True) and                      *)
(* bytes.decode("utf-8", "replace"). The tables are those of the Unicode   *)
(* database of the interpreter (14.0).                                     *)
(***************************************************************************)
\* str.isspace of one character, as closed ranges of code points.
SpaceRanges ==
  {<<9, 13>>, <<28, 32>>, <<133, 133>>, <<160, 160>>, <<5760, 5760>>,
   <<8192, 8202>>, <<8232, 8233>>, <<8239, 8239>>, <<8287, 8287>>,
   <<12288, 12288>> }

\* str.upper of one character that changes into one character: for the
\* code points lo, lo + step, ... hi the result is the code point plus delta.
\* Each entry is <<lo, hi, step, delta>>.
UpperRanges ==
  {<<97, 122, 1, -32>>, <<181, 181, 1, 743>>, <<224, 246, 1, -32>>,
   <<248, 254, 1, -32>>, <<255, 255, 1, 121>>, <<257, 303, 2, -1>>,
   <<305, 305, 1, -232>>, <<307, 311, 2, -1>>, <<314, 328, 2, -1>>,
   <<331, 375, 2, -1>>, <<378, 382, 2, -1>>, <<383, 383, 1, -300>>,
   <<384, 384, 1, 195>>, <<387, 389, 2, -1>>, <<392, 392, 1, -1>>,
   <<396, 396, 1, -1>>, <<402, 402, 1, -1>>, <<405, 405, 1, 97>>,
   <<409, 409, 1, -1>>, <<410, 410, 1, 163>>, <<414, 414, 1, 130>>,
   <<417, 421, 2, -1>>, <<424, 424, 1, -1>>, <<429, 429, 1, -1>>,
   <<432, 432, 1, -1>>, <<436, 438, 2, -1>>, <<441, 441, 1, -1>>,
   <<445, 445, 1, -1>>, <<447, 447, 1, 56>>, <<453, 453, 1, -1>>,
   <<454, 454, 1, -2>>, <<456, 456, 1, -1>>, <<457, 457, 1, -2>>,
   <<459, 459, 1, -1>>, <<460, 460, 1, -2>>, <<462, 476, 2, -1>>,
   <<477, 477, 1, -79>>, <<479, 495, 2, -1>>, <<498, 498, 1, -1>>,
   <<499, 499, 1, -2>>, <<501, 501, 1, -1>>, <<505, 543, 2, -1>>,
   <<547, 563, 2, -1>>, <<572, 572, 1, -1>>, <<575, 576, 1, 10815>>,
   <<578, 578, 1, -1>>, <<583, 591, 2, -1>>, <<592, 592, 1, 10783>>,
   <<593, 593, 1, 10780>>, <<594, 594, 1, 10782>>, <<595, 595, 1, -210>>,
   <<596, 596, 1, -206>>, <<598, 599, 1, -205>>, <<601, 601, 1, -202>>,
   <<603, 603, 1, -203>>, <<604, 604, 1, 42319>>, <<608, 608, 1, -205>>,
   <<609, 609, 1, 42315>>, <<611, 611, 1, -207>>, <<613, 613, 1, 42280>>,
   <<614, 614, 1, 42308>>, <<616, 616, 1, -209>>, <<617, 617, 1, -211>>,
   <<618, 618, 1, 42308>>, <<619, 619, 1, 10743>>, <<620, 620, 1, 42305>>,
   <<623, 623, 1, -211>>, <<625, 625, 1, 10749>>, <<626, 626, 1, -213>>,
   <<629, 629, 1, -214>>, <<637, 637, 1, 10727>>, <<640, 640, 1, -218>>,
   <<642, 642, 1, 42307>>, <<643, 643, 1, -218>>, <<647, 647, 1, 42282>>,
   <<648, 648, 1, -218>>, <<649, 649, 1, -69>>, <<650, 651, 1, -217>>,
   <<652, 652, 1, -71>>, <<658, 658, 1, -219>>, <<669, 669, 1, 42261>>,
   <<670, 670, 1, 42258>>, <<837, 837, 1, 84>>, <<881, 883, 2, -1>>,
   <<887, 887, 1, -1>>, <<891, 893, 1, 130>>, <<940, 940, 1, -38>>,
   <<941, 943, 1, -37>>, <<945, 961, 1, -32>>, <<962, 962, 1, -31>>,
   <<963, 971, 1, -32>>, <<972, 972, 1, -64>>, <<973, 974, 1, -63>>,
   <<976, 976, 1, -62>>, <<977, 977, 1, -57>>, <<981, 981, 1, -47>>,
   <<982, 982, 1, -54>>, <<983, 983, 1, -8>>, <<985, 1007, 2, -1>>,
   <<1008, 1008, 1, -86>>, <<1009, 1009, 1, -80>>, <<1010, 1010, 1, 7>>,
   <<1011, 1011, 1, -116>>, <<1013, 1013, 1, -96>>, <<1016, 1016, 1, -1>>,
   <<1019, 1019, 1, -1>>, <<1072, 1103, 1, -32>>, <<1104, 1119, 1, -80>>,
   <<1121, 1153, 2, -1>>, <<1163, 1215, 2, -1>>, <<1218, 1230, 2, -1>>,
   <<1231, 1231, 1, -15>>, <<1233, 1327, 2, -1>>, <<1377, 1414, 1, -48>>,
   <<4304, 4346, 1, 3008>>, <<4349, 4351, 1, 3008>>, <<5112, 5117, 1, -8>>,
   <<7296, 7296, 1, -6254>>, <<7297, 7297, 1, -6253>>,
   <<7298, 7298, 1, -6244>>, <<7299, 7300, 1, -6242>>,
   <<7301, 7301, 1, -6243>>, <<7302, 7302, 1, -6236>>,
   <<7303, 7303, 1, -6181>>, <<7304, 7304, 1, 35266>>,
   <<7545, 7545, 1, 35332>>, <<7549, 7549, 1, 3814>>,
   <<7566, 7566, 1, 35384>>, <<7681, 7829, 2, -1>>, <<7835, 7835, 1, -59>>,
   <<7841, 7935, 2, -1>>, <<7936, 7943, 1, 8>>, <<7952, 7957, 1, 8>>,
   <<7968, 7975, 1, 8>>, <<7984, 7991, 1, 8>>, <<8000, 8005, 1, 8>>,
   <<8017, 8023, 2, 8>>, <<8032, 8039, 1, 8>>, <<8048, 8049, 1, 74>>,
   <<8050, 8053, 1, 86>>, <<8054, 8055, 1, 100>>, <<8056, 8057, 1, 128>>,
   <<8058, 8059, 1, 112>>, <<8060, 8061, 1, 126>>, <<8112, 8113, 1, 8>>,
   <<8126, 8126, 1, -7205>>, <<8144, 8145, 1, 8>>, <<8160, 8161, 1, 8>>,
   <<8165, 8165, 1, 7>>, <<8526, 8526, 1, -28>>, <<8560, 8575, 1, -16>>,
   <<8580, 8580, 1, -1>>, <<9424, 9449, 1, -26>>, <<11312, 11359, 1, -48>>,
   <<11361, 11361, 1, -1>>, <<11365, 11365, 1, -10795>>,
   <<11366, 11366, 1, -10792>>, <<11368, 11372, 2, -1>>,
   <<11379, 11379, 1, -1>>, <<11382, 11382, 1, -1>>, <<11393, 11491, 2, -1>>,
   <<11500, 11502, 2, -1>>, <<11507, 11507, 1, -1>>,
   <<11520, 11557, 1, -7264>>, <<11559, 11559, 1, -7264>>,
   <<11565, 11565, 1, -7264>>, <<42561, 42605, 2, -1>>,
   <<42625, 42651, 2, -1>>, <<42787, 42799, 2, -1>>, <<42803, 42863, 2, -1>>,
   <<42874, 42876, 2, -1>>, <<42879, 42887, 2, -1>>, <<42892, 42892, 1, -1>>,
   <<42897, 42899, 2, -1>>, <<42900, 42900, 1, 48>>, <<42903, 42921, 2, -1>>,
   <<42933, 42947, 2, -1>>, <<42952, 42954, 2, -1>>, <<42961, 42961, 1, -1>>,
   <<42967, 42969, 2, -1>>, <<42998, 42998, 1, -1>>,
   <<43859, 43859, 1, -928>>, <<43888, 43967, 1, -38864>>,
   <<65345, 65370, 1, -32>>, <<66600, 66639, 1, -40>>,
   <<66776, 66811, 1, -40>>, <<66967, 67003, 2, -39>>,
   <<66968, 66976, 2, -39>>, <<66980, 66992, 2, -39>>,
   <<66996, 67000, 2, -39>>, <<67004, 67004, 1, -39>>,
   <<68800, 68850, 1, -64>>, <<71872, 71903, 1, -32>>,
   <<93792, 93823, 1, -32>>, <<125218, 125251, 1, -34>> }

\* str.upper of one character that changes into several: <<code point,
\* result>>.
UpperSpecial ==
  {<<223, <<83, 83>>>>, <<329, <<700, 78>>>>, <<496, <<74, 780>>>>,
   <<912, <<921, 776, 769>>>>, <<944, <<933, 776, 769>>>>,
   <<1415, <<1333, 1362>>>>, <<7830, <<72, 817>>>>, <<7831, <<84, 776>>>>,
   <<7832, <<87, 778>>>>, <<7833, <<89, 778>>>>, <<7834, <<65, 702>>>>,
   <<8016, <<933, 787>>>>, <<8018, <<933, 787, 768>>>>,
   <<8020, <<933, 787, 769>>>>, <<8022, <<933, 787, 834>>>>,
   <<8064, <<7944, 921>>>>, <<8065, <<7945, 921>>>>, <<8066, <<7946, 921>>>>,
   <<8067, <<7947, 921>>>>, <<8068, <<7948, 921>>>>, <<8069, <<7949, 921>>>>,
   <<8070, <<7950, 921>>>>, <<8071, <<7951, 921>>>>, <<8072, <<7944, 921>>>>,
   <<8073, <<7945, 921>>>>, <<8074, <<7946, 921>>>>, <<8075, <<7947, 921>>>>,
   <<8076, <<7948, 921>>>>, <<8077, <<7949, 921>>>>, <<8078, <<7950, 921>>>>,
   <<8079, <<7951, 921>>>>, <<8080, <<7976, 921>>>>, <<8081, <<7977, 921>>>>,
   <<8082, <<7978, 921>>>>, <<8083, <<7979, 921>>>>, <<8084, <<7980, 921>>>>,
   <<8085, <<7981, 921>>>>, <<8086, <<7982, 921>>>>, <<8087, <<7983, 921>>>>,
   <<8088, <<7976, 921>>>>, <<8089, <<7977, 921>>>>, <<8090, <<7978, 921>>>>,
   <<8091, <<7979, 921>>>>, <<8092, <<7980, 921>>>>, <<8093, <<7981, 921>>>>,
   <<8094, <<7982, 921>>>>, <<8095, <<7983, 921>>>>, <<8096, <<8040, 921>>>>,
   <<8097, <<8041, 921>>>>, <<8098, <<8042, 921>>>>, <<8099, <<8043, 921>>>>,
   <<8100, <<8044, 921>>>>, <<8101, <<8045, 921>>>>, <<8102, <<8046, 921>>>>,
   <<8103, <<8047, 921>>>>, <<8104, <<8040, 921>>>>, <<8105, <<8041, 921>>>>,
   <<8106, <<8042, 921>>>>, <<8107, <<8043, 921>>>>, <<8108, <<8044, 921>>>>,
   <<8109, <<8045, 921>>>>, <<8110, <<8046, 921>>>>, <<8111, <<8047, 921>>>>,
   <<8114, <<8122, 921>>>>, <<8115, <<913, 921>>>>, <<8116, <<902, 921>>>>,
   <<8118, <<913, 834>>>>, <<8119, <<913, 834, 921>>>>,
   <<8124, <<913, 921>>>>, <<8130, <<8138, 921>>>>, <<8131, <<919, 921>>>>,
   <<8132, <<905, 921>>>>, <<8134, <<919, 834>>>>,
   <<8135, <<919, 834, 921>>>>, <<8140, <<919, 921>>>>,
   <<8146, <<921, 776, 768>>>>, <<8147, <<921, 776, 769>>>>,
   <<8150, <<921, 834>>>>, <<8151, <<921, 776, 834>>>>,
   <<8162, <<933, 776, 768>>>>, <<8163, <<933, 776, 769>>>>,
   <<8164, <<929, 787>>>>, <<8166, <<933, 834>>>>,
   <<8167, <<933, 776, 834>>>>, <<8178, <<8186, 921>>>>,
   <<8179, <<937, 921>>>>, <<8180, <<911, 921>>>>, <<8182, <<937, 834>>>>,
   <<8183, <<937, 834, 921>>>>, <<8188, <<937, 921>>>>,
   <<64256, <<70, 70>>>>, <<64257, <<70, 73>>>>, <<64258, <<70, 76>>>>,
   <<64259, <<70, 70, 73>>>>, <<64260, <<70, 70, 76>>>>,
   <<64261, <<83, 84>>>>, <<64262, <<83, 84>>>>, <<64275, <<1348, 1350>>>>,
   <<64276, <<1348, 1333>>>>, <<64277, <<1348, 1339>>>>,
   <<64278, <<1358, 1350>>>>, <<64279, <<1348, 1341>>>> }

\* str.lower of one character, as UpperRanges.
LowerRanges ==
  {<<65, 90, 1, 32>>, <<192, 214, 1, 32>>, <<216, 222, 1, 32>>,
   <<256, 302, 2, 1>>, <<306, 310, 2, 1>>, <<313, 327, 2, 1>>,
   <<330, 374, 2, 1>>, <<376, 376, 1, -121>>, <<377, 381, 2, 1>>,
   <<385, 385, 1, 210>>, <<386, 388, 2, 1>>, <<390, 390, 1, 206>>,
   <<391, 391, 1, 1>>, <<393, 394, 1, 205>>, <<395, 395, 1, 1>>,
   <<398, 398, 1, 79>>, <<399, 399, 1, 202>>, <<400, 400, 1, 203>>,
   <<401, 401, 1, 1>>, <<403, 403, 1, 205>>, <<404, 404, 1, 207>>,
   <<406, 406, 1, 211>>, <<407, 407, 1, 209>>, <<408, 408, 1, 1>>,
   <<412, 412, 1, 211>>, <<413, 413, 1, 213>>, <<415, 415, 1, 214>>,
   <<416, 420, 2, 1>>, <<422, 422, 1, 218>>, <<423, 423, 1, 1>>,
   <<425, 425, 1, 218>>, <<428, 428, 1, 1>>, <<430, 430, 1, 218>>,
   <<431, 431, 1, 1>>, <<433, 434, 1, 217>>, <<435, 437, 2, 1>>,
   <<439, 439, 1, 219>>, <<440, 440, 1, 1>>, <<444, 444, 1, 1>>,
   <<452, 452, 1, 2>>, <<453, 453, 1, 1>>, <<455, 455, 1, 2>>,
   <<456, 456, 1, 1>>, <<458, 458, 1, 2>>, <<459, 475, 2, 1>>,
   <<478, 494, 2, 1>>, <<497, 497, 1, 2>>, <<498, 500, 2, 1>>,
   <<502, 502, 1, -97>>, <<503, 503, 1, -56>>, <<504, 542, 2, 1>>,
   <<544, 544, 1, -130>>, <<546, 562, 2, 1>>, <<570, 570, 1, 10795>>,
   <<571, 571, 1, 1>>, <<573, 573, 1, -163>>, <<574, 574, 1, 10792>>,
   <<577, 577, 1, 1>>, <<579, 579, 1, -195>>, <<580, 580, 1, 69>>,
   <<581, 581, 1, 71>>, <<582, 590, 2, 1>>, <<880, 882, 2, 1>>,
   <<886, 886, 1, 1>>, <<895, 895, 1, 116>>, <<902, 902, 1, 38>>,
   <<904, 906, 1, 37>>, <<908, 908, 1, 64>>, <<910, 911, 1, 63>>,
   <<913, 929, 1, 32>>, <<931, 939, 1, 32>>, <<975, 975, 1, 8>>,
   <<984, 1006, 2, 1>>, <<1012, 1012, 1, -60>>, <<1015, 1015, 1, 1>>,
   <<1017, 1017, 1, -7>>, <<1018, 1018, 1, 1>>, <<1021, 1023, 1, -130>>,
   <<1024, 1039, 1, 80>>, <<1040, 1071, 1, 32>>, <<1120, 1152, 2, 1>>,
   <<1162, 1214, 2, 1>>, <<1216, 1216, 1, 15>>, <<1217, 1229, 2, 1>>,
   <<1232, 1326, 2, 1>>, <<1329, 1366, 1, 48>>, <<4256, 4293, 1, 7264>>,
   <<4295, 4295, 1, 7264>>, <<4301, 4301, 1, 7264>>,
   <<5024, 5103, 1, 38864>>, <<5104, 5109, 1, 8>>, <<7312, 7354, 1, -3008>>,
   <<7357, 7359, 1, -3008>>, <<7680, 7828, 2, 1>>, <<7838, 7838, 1, -7615>>,
   <<7840, 7934, 2, 1>>, <<7944, 7951, 1, -8>>, <<7960, 7965, 1, -8>>,
   <<7976, 7983, 1, -8>>, <<7992, 7999, 1, -8>>, <<8008, 8013, 1, -8>>,
   <<8025, 8031, 2, -8>>, <<8040, 8047, 1, -8>>, <<8072, 8079, 1, -8>>,
   <<8088, 8095, 1, -8>>, <<8104, 8111, 1, -8>>, <<8120, 8121, 1, -8>>,
   <<8122, 8123, 1, -74>>, <<8124, 8124, 1, -9>>, <<8136, 8139, 1, -86>>,
   <<8140, 8140, 1, -9>>, <<8152, 8153, 1, -8>>, <<8154, 8155, 1, -100>>,
   <<8168, 8169, 1, -8>>, <<8170, 8171, 1, -112>>, <<8172, 8172, 1, -7>>,
   <<8184, 8185, 1, -128>>, <<8186, 8187, 1, -126>>, <<8188, 8188, 1, -9>>,
   <<8486, 8486, 1, -7517>>, <<8490, 8490, 1, -8383>>,
   <<8491, 8491, 1, -8262>>, <<8498, 8498, 1, 28>>, <<8544, 8559, 1, 16>>,
   <<8579, 8579, 1, 1>>, <<9398, 9423, 1, 26>>, <<11264, 11311, 1, 48>>,
   <<11360, 11360, 1, 1>>, <<11362, 11362, 1, -10743>>,
   <<11363, 11363, 1, -3814>>, <<11364, 11364, 1, -10727>>,
   <<11367, 11371, 2, 1>>, <<11373, 11373, 1, -10780>>,
   <<11374, 11374, 1, -10749>>, <<11375, 11375, 1, -10783>>,
   <<11376, 11376, 1, -10782>>, <<11378, 11378, 1, 1>>,
   <<11381, 11381, 1, 1>>, <<11390, 11391, 1, -10815>>,
   <<11392, 11490, 2, 1>>, <<11499, 11501, 2, 1>>, <<11506, 11506, 1, 1>>,
   <<42560, 42604, 2, 1>>, <<42624, 42650, 2, 1>>, <<42786, 42798, 2, 1>>,
   <<42802, 42862, 2, 1>>, <<42873, 42875, 2, 1>>,
   <<42877, 42877, 1, -35332>>, <<42878, 42886, 2, 1>>,
   <<42891, 42891, 1, 1>>, <<42893, 42893, 1, -42280>>,
   <<42896, 42898, 2, 1>>, <<42902, 42920, 2, 1>>,
   <<42922, 42922, 1, -42308>>, <<42923, 42923, 1, -42319>>,
   <<42924, 42924, 1, -42315>>, <<42925, 42925, 1, -42305>>,
   <<42926, 42926, 1, -42308>>, <<42928, 42928, 1, -42258>>,
   <<42929, 42929, 1, -42282>>, <<42930, 42930, 1, -42261>>,
   <<42931, 42931, 1, 928>>, <<42932, 42946, 2, 1>>,
   <<42948, 42948, 1, -48>>, <<42949, 42949, 1, -42307>>,
   <<42950, 42950, 1, -35384>>, <<42951, 42953, 2, 1>>,
   <<42960, 42960, 1, 1>>, <<42966, 42968, 2, 1>>, <<42997, 42997, 1, 1>>,
   <<65313, 65338, 1, 32>>, <<66560, 66599, 1, 40>>, <<66736, 66771, 1, 40>>,
   <<66928, 66964, 2, 39>>, <<66929, 66937, 2, 39>>, <<66941, 66953, 2, 39>>,
   <<66957, 66961, 2, 39>>, <<66965, 66965, 1, 39>>, <<68736, 68786, 1, 64>>,
   <<71840, 71871, 1, 32>>, <<93760, 93791, 1, 32>>,
   <<125184, 125217, 1, 34>> }

\* str.lower of one character that changes into several.
LowerSpecial ==
  {<<304, <<105, 775>>>> }

\* The characters str.lower skips when it looks around a capital sigma
\* (case-ignorable), as closed ranges.
CaseIgnorableRanges ==
  {<<39, 39>>, <<46, 46>>, <<58, 58>>, <<94, 94>>, <<96, 96>>, <<168, 168>>,
   <<173, 173>>, <<175, 175>>, <<180, 180>>, <<183, 184>>, <<688, 879>>,
   <<884, 885>>, <<890, 890>>, <<900, 901>>, <<903, 903>>, <<1155, 1161>>,
   <<1369, 1369>>, <<1375, 1375>>, <<1425, 1469>>, <<1471, 1471>>,
   <<1473, 1474>>, <<1476, 1477>>, <<1479, 1479>>, <<1524, 1524>>,
   <<1536, 1541>>, <<1552, 1562>>, <<1564, 1564>>, <<1600, 1600>>,
   <<1611, 1631>>, <<1648, 1648>>, <<1750, 1757>>, <<1759, 1768>>,
   <<1770, 1773>>, <<1807, 1807>>, <<1809, 1809>>, <<1840, 1866>>,
   <<1958, 1968>>, <<2027, 2037>>, <<2042, 2042>>, <<2045, 2045>>,
   <<2070, 2093>>, <<2137, 2139>>, <<2184, 2184>>, <<2192, 2193>>,
   <<2200, 2207>>, <<2249, 2306>>, <<2362, 2362>>, <<2364, 2364>>,
   <<2369, 2376>>, <<2381, 2381>>, <<2385, 2391>>, <<2402, 2403>>,
   <<2417, 2417>>, <<2433, 2433>>, <<2492, 2492>>, <<2497, 2500>>,
   <<2509, 2509>>, <<2530, 2531>>, <<2558, 2558>>, <<2561, 2562>>,
   <<2620, 2620>>, <<2625, 2626>>, <<2631, 2632>>, <<2635, 2637>>,
   <<2641, 2641>>, <<2672, 2673>>, <<2677, 2677>>, <<2689, 2690>>,
   <<2748, 2748>>, <<2753, 2757>>, <<2759, 2760>>, <<2765, 2765>>,
   <<2786, 2787>>, <<2810, 2815>>, <<2817, 2817>>, <<2876, 2876>>,
   <<2879, 2879>>, <<2881, 2884>>, <<2893, 2893>>, <<2901, 2902>>,
   <<2914, 2915>>, <<2946, 2946>>, <<3008, 3008>>, <<3021, 3021>>,
   <<3072, 3072>>, <<3076, 3076>>, <<3132, 3132>>, <<3134, 3136>>,
   <<3142, 3144>>, <<3146, 3149>>, <<3157, 3158>>, <<3170, 3171>>,
   <<3201, 3201>>, <<3260, 3260>>, <<3263, 3263>>, <<3270, 3270>>,
   <<3276, 3277>>, <<3298, 3299>>, <<3328, 3329>>, <<3387, 3388>>,
   <<3393, 3396>>, <<3405, 3405>>, <<3426, 3427>>, <<3457, 3457>>,
   <<3530, 3530>>, <<3538, 3540>>, <<3542, 3542>>, <<3633, 3633>>,
   <<3636, 3642>>, <<3654, 3662>>, <<3761, 3761>>, <<3764, 3772>>,
   <<3782, 3782>>, <<3784, 3789>>, <<3864, 3865>>, <<3893, 3893>>,
   <<3895, 3895>>, <<3897, 3897>>, <<3953, 3966>>, <<3968, 3972>>,
   <<3974, 3975>>, <<3981, 3991>>, <<3993, 4028>>, <<4038, 4038>>,
   <<4141, 4144>>, <<4146, 4151>>, <<4153, 4154>>, <<4157, 4158>>,
   <<4184, 4185>>, <<4190, 4192>>, <<4209, 4212>>, <<4226, 4226>>,
   <<4229, 4230>>, <<4237, 4237>>, <<4253, 4253>>, <<4348, 4348>>,
   <<4957, 4959>>, <<5906, 5908>>, <<5938, 5939>>, <<5970, 5971>>,
   <<6002, 6003>>, <<6068, 6069>>, <<6071, 6077>>, <<6086, 6086>>,
   <<6089, 6099>>, <<6103, 6103>>, <<6109, 6109>>, <<6155, 6159>>,
   <<6211, 6211>>, <<6277, 6278>>, <<6313, 6313>>, <<6432, 6434>>,
   <<6439, 6440>>, <<6450, 6450>>, <<6457, 6459>>, <<6679, 6680>>,
   <<6683, 6683>>, <<6742, 6742>>, <<6744, 6750>>, <<6752, 6752>>,
   <<6754, 6754>>, <<6757, 6764>>, <<6771, 6780>>, <<6783, 6783>>,
   <<6823, 6823>>, <<6832, 6862>>, <<6912, 6915>>, <<6964, 6964>>,
   <<6966, 6970>>, <<6972, 6972>>, <<6978, 6978>>, <<7019, 7027>>,
   <<7040, 7041>>, <<7074, 7077>>, <<7080, 7081>>, <<7083, 7085>>,
   <<7142, 7142>>, <<7144, 7145>>, <<7149, 7149>>, <<7151, 7153>>,
   <<7212, 7219>>, <<7222, 7223>>, <<7288, 7293>>, <<7376, 7378>>,
   <<7380, 7392>>, <<7394, 7400>>, <<7405, 7405>>, <<7412, 7412>>,
   <<7416, 7417>>, <<7468, 7530>>, <<7544, 7544>>, <<7579, 7679>>,
   <<8125, 8125>>, <<8127, 8129>>, <<8141, 8143>>, <<8157, 8159>>,
   <<8173, 8175>>, <<8189, 8190>>, <<8203, 8207>>, <<8216, 8217>>,
   <<8228, 8228>>, <<8231, 8231>>, <<8234, 8238>>, <<8288, 8292>>,
   <<8294, 8303>>, <<8305, 8305>>, <<8319, 8319>>, <<8336, 8348>>,
   <<8400, 8432>>, <<11388, 11389>>, <<11503, 11505>>, <<11631, 11631>>,
   <<11647, 11647>>, <<11744, 11775>>, <<11823, 11823>>, <<12293, 12293>>,
   <<12330, 12333>>, <<12337, 12341>>, <<12347, 12347>>, <<12441, 12446>>,
   <<12540, 12542>>, <<40981, 40981>>, <<42232, 42237>>, <<42508, 42508>>,
   <<42607, 42610>>, <<42612, 42621>>, <<42623, 42623>>, <<42652, 42655>>,
   <<42736, 42737>>, <<42752, 42785>>, <<42864, 42864>>, <<42888, 42890>>,
   <<42994, 42996>>, <<43000, 43001>>, <<43010, 43010>>, <<43014, 43014>>,
   <<43019, 43019>>, <<43045, 43046>>, <<43052, 43052>>, <<43204, 43205>>,
   <<43232, 43249>>, <<43263, 43263>>, <<43302, 43309>>, <<43335, 43345>>,
   <<43392, 43394>>, <<43443, 43443>>, <<43446, 43449>>, <<43452, 43453>>,
   <<43471, 43471>>, <<43493, 43494>>, <<43561, 43566>>, <<43569, 43570>>,
   <<43573, 43574>>, <<43587, 43587>>, <<43596, 43596>>, <<43632, 43632>>,
   <<43644, 43644>>, <<43696, 43696>>, <<43698, 43700>>, <<43703, 43704>>,
   <<43710, 43711>>, <<43713, 43713>>, <<43741, 43741>>, <<43756, 43757>>,
   <<43763, 43764>>, <<43766, 43766>>, <<43867, 43871>>, <<43881, 43883>>,
   <<44005, 44005>>, <<44008, 44008>>, <<44013, 44013>>, <<64286, 64286>>,
   <<64434, 64450>>, <<65024, 65039>>, <<65043, 65043>>, <<65056, 65071>>,
   <<65106, 65106>>, <<65109, 65109>>, <<65279, 65279>>, <<65287, 65287>>,
   <<65294, 65294>>, <<65306, 65306>>, <<65342, 65342>>, <<65344, 65344>>,
   <<65392, 65392>>, <<65438, 65439>>, <<65507, 65507>>, <<65529, 65531>>,
   <<66045, 66045>>, <<66272, 66272>>, <<66422, 66426>>, <<67456, 67461>>,
   <<67463, 67504>>, <<67506, 67514>>, <<68097, 68099>>, <<68101, 68102>>,
   <<68108, 68111>>, <<68152, 68154>>, <<68159, 68159>>, <<68325, 68326>>,
   <<68900, 68903>>, <<69291, 69292>>, <<69446, 69456>>, <<69506, 69509>>,
   <<69633, 69633>>, <<69688, 69702>>, <<69744, 69744>>, <<69747, 69748>>,
   <<69759, 69761>>, <<69811, 69814>>, <<69817, 69818>>, <<69821, 69821>>,
   <<69826, 69826>>, <<69837, 69837>>, <<69888, 69890>>, <<69927, 69931>>,
   <<69933, 69940>>, <<70003, 70003>>, <<70016, 70017>>, <<70070, 70078>>,
   <<70089, 70092>>, <<70095, 70095>>, <<70191, 70193>>, <<70196, 70196>>,
   <<70198, 70199>>, <<70206, 70206>>, <<70367, 70367>>, <<70371, 70378>>,
   <<70400, 70401>>, <<70459, 70460>>, <<70464, 70464>>, <<70502, 70508>>,
   <<70512, 70516>>, <<70712, 70719>>, <<70722, 70724>>, <<70726, 70726>>,
   <<70750, 70750>>, <<70835, 70840>>, <<70842, 70842>>, <<70847, 70848>>,
   <<70850, 70851>>, <<71090, 71093>>, <<71100, 71101>>, <<71103, 71104>>,
   <<71132, 71133>>, <<71219, 71226>>, <<71229, 71229>>, <<71231, 71232>>,
   <<71339, 71339>>, <<71341, 71341>>, <<71344, 71349>>, <<71351, 71351>>,
   <<71453, 71455>>, <<71458, 71461>>, <<71463, 71467>>, <<71727, 71735>>,
   <<71737, 71738>>, <<71995, 71996>>, <<71998, 71998>>, <<72003, 72003>>,
   <<72148, 72151>>, <<72154, 72155>>, <<72160, 72160>>, <<72193, 72202>>,
   <<72243, 72248>>, <<72251, 72254>>, <<72263, 72263>>, <<72273, 72278>>,
   <<72281, 72283>>, <<72330, 72342>>, <<72344, 72345>>, <<72752, 72758>>,
   <<72760, 72765>>, <<72767, 72767>>, <<72850, 72871>>, <<72874, 72880>>,
   <<72882, 72883>>, <<72885, 72886>>, <<73009, 73014>>, <<73018, 73018>>,
   <<73020, 73021>>, <<73023, 73029>>, <<73031, 73031>>, <<73104, 73105>>,
   <<73109, 73109>>, <<73111, 73111>>, <<73459, 73460>>, <<78896, 78904>>,
   <<92912, 92916>>, <<92976, 92982>>, <<92992, 92995>>, <<94031, 94031>>,
   <<94095, 94111>>, <<94176, 94177>>, <<94179, 94180>>, <<110576, 110579>>,
   <<110581, 110587>>, <<110589, 110590>>, <<113821, 113822>>,
   <<113824, 113827>>, <<118528, 118573>>, <<118576, 118598>>,
   <<119143, 119145>>, <<119155, 119170>>, <<119173, 119179>>,
   <<119210, 119213>>, <<119362, 119364>>, <<121344, 121398>>,
   <<121403, 121452>>, <<121461, 121461>>, <<121476, 121476>>,
   <<121499, 121503>>, <<121505, 121519>>, <<122880, 122886>>,
   <<122888, 122904>>, <<122907, 122913>>, <<122915, 122916>>,
   <<122918, 122922>>, <<123184, 123197>>, <<123566, 123566>>,
   <<123628, 123631>>, <<125136, 125142>>, <<125252, 125259>>,
   <<127995, 127999>>, <<917505, 917505>>, <<917536, 917631>>,
   <<917760, 917999>> }

\* The cased characters that are not case-ignorable, as closed ranges.
CasedRanges ==
  {<<65, 90>>, <<97, 122>>, <<170, 170>>, <<181, 181>>, <<186, 186>>,
   <<192, 214>>, <<216, 246>>, <<248, 442>>, <<444, 447>>, <<452, 659>>,
   <<661, 687>>, <<880, 883>>, <<886, 887>>, <<891, 893>>, <<895, 895>>,
   <<902, 902>>, <<904, 906>>, <<908, 908>>, <<910, 929>>, <<931, 1013>>,
   <<1015, 1153>>, <<1162, 1327>>, <<1329, 1366>>, <<1376, 1416>>,
   <<4256, 4293>>, <<4295, 4295>>, <<4301, 4301>>, <<4304, 4346>>,
   <<4349, 4351>>, <<5024, 5109>>, <<5112, 5117>>, <<7296, 7304>>,
   <<7312, 7354>>, <<7357, 7359>>, <<7424, 7467>>, <<7531, 7543>>,
   <<7545, 7578>>, <<7680, 7957>>, <<7960, 7965>>, <<7968, 8005>>,
   <<8008, 8013>>, <<8016, 8023>>, <<8025, 8025>>, <<8027, 8027>>,
   <<8029, 8029>>, <<8031, 8061>>, <<8064, 8116>>, <<8118, 8124>>,
   <<8126, 8126>>, <<8130, 8132>>, <<8134, 8140>>, <<8144, 8147>>,
   <<8150, 8155>>, <<8160, 8172>>, <<8178, 8180>>, <<8182, 8188>>,
   <<8450, 8450>>, <<8455, 8455>>, <<8458, 8467>>, <<8469, 8469>>,
   <<8473, 8477>>, <<8484, 8484>>, <<8486, 8486>>, <<8488, 8488>>,
   <<8490, 8493>>, <<8495, 8500>>, <<8505, 8505>>, <<8508, 8511>>,
   <<8517, 8521>>, <<8526, 8526>>, <<8544, 8575>>, <<8579, 8580>>,
   <<9398, 9449>>, <<11264, 11387>>, <<11390, 11492>>, <<11499, 11502>>,
   <<11506, 11507>>, <<11520, 11557>>, <<11559, 11559>>, <<11565, 11565>>,
   <<42560, 42605>>, <<42624, 42651>>, <<42786, 42863>>, <<42865, 42887>>,
   <<42891, 42894>>, <<42896, 42954>>, <<42960, 42961>>, <<42963, 42963>>,
   <<42965, 42969>>, <<42997, 42998>>, <<43002, 43002>>, <<43824, 43866>>,
   <<43872, 43880>>, <<43888, 43967>>, <<64256, 64262>>, <<64275, 64279>>,
   <<65313, 65338>>, <<65345, 65370>>, <<66560, 66639>>, <<66736, 66771>>,
   <<66776, 66811>>, <<66928, 66938>>, <<66940, 66954>>, <<66956, 66962>>,
   <<66964, 66965>>, <<66967, 66977>>, <<66979, 66993>>, <<66995, 67001>>,
   <<67003, 67004>>, <<68736, 68786>>, <<68800, 68850>>, <<71840, 71903>>,
   <<93760, 93823>>, <<119808, 119892>>, <<119894, 119964>>,
   <<119966, 119967>>, <<119970, 119970>>, <<119973, 119974>>,
   <<119977, 119980>>, <<119982, 119993>>, <<119995, 119995>>,
   <<119997, 120003>>, <<120005, 120069>>, <<120071, 120074>>,
   <<120077, 120084>>, <<120086, 120092>>, <<120094, 120121>>,
   <<120123, 120126>>, <<120128, 120132>>, <<120134, 120134>>,
   <<120138, 120144>>, <<120146, 120485>>, <<120488, 120512>>,
   <<120514, 120538>>, <<120540, 120570>>, <<120572, 120596>>,
   <<120598, 120628>>, <<120630, 120654>>, <<120656, 120686>>,
   <<120688, 120712>>, <<120714, 120744>>, <<120746, 120770>>,
   <<120772, 120779>>, <<122624, 122633>>, <<122635, 122654>>,
   <<125184, 125251>>, <<127280, 127305>>, <<127312, 127337>>,
   <<127344, 127369>> }

InRanges(c, ranges) == \E r \in ranges : c >= r[1] /\ c <= r[2]

\* The case mapping of one character: the entry of special when there is
\* one, the shift of the range that holds it, the character itself otherwise.
case_char(c, ranges, special) ==
  IF \E p \in special : p[1] = c
    THEN (CHOOSE p \in special : p[1] = c)[2]
  ELSE IF \E r \in ranges : c >= r[1] /\ c <= r[2] /\ (c - r[1]) % r[3] = 0
    THEN <<c + (CHOOSE r \in ranges : c >= r[1] /\ c <= r[2] /\ (c - r[1]) % r[3] = 0)[4]>>
  ELSE <<c>>

upper_char(c) == case_char(c, UpperRanges, UpperSpecial)

lower_char(c) == case_char(c, LowerRanges, LowerSpecial)

rot13_char(c) ==
  IF c >= 97 /\ c <= 122 THEN 97 + ((c - 97 + 13) % 26)
  ELSE IF c >= 65 /\ c <= 90 THEN 65 + ((c - 65 + 13) % 26)
  ELSE c

RECURSIVE upper(_)
upper(s) == IF s = <<>> THEN <<>> ELSE upper_char(Head(s)) \o upper(Tail(s))

\* A capital sigma at position i becomes the final small sigma when the
\* nearest character before it that is not case-ignorable is cased, and the
\* nearest such character after it, if any, is not.
FinalSigma(s, i) ==
  LET before == {j \in 1..(i - 1) : ~InRanges(s[j], CaseIgnorableRanges)}
      after == {j \in (i + 1)..Len(s) : ~InRanges(s[j], CaseIgnorableRanges)}
  IN /\ before # {}
     /\ InRanges(s[CHOOSE j \in before : \A k \in before : k <= j], CasedRanges)
     /\ \/ after = {}
        \/ ~InRanges(s[CHOOSE j \in after : \A k \in after : j <= k], CasedRanges)

RECURSIVE lower_from(_, _)
lower_from(s, i) ==
  IF i > Len(s) THEN <<>>
  ELSE (IF s[i] = 931 THEN (IF FinalSigma(s, i) THEN <<962>> ELSE <<963>>)
        ELSE lower_char(s[i]))
       \o lower_from(s, i + 1)

lower(s) == lower_from(s, 1)

rot_13(s) == [i \in 1..Len(s) |-> rot13_char(s[i])]

\* text.startswith(word) in place of word in text.
StartsWith(text, word) ==
  Len(text) >= Len(word) /\ SubSeq(text, 1, Len(word)) = word

\* word in text
Contains(text, word) ==
  \E i \in 1..(Len(text) - Len(word) + 1) : SubSeq(text, i, i + Len(word) - 1) = word

\* " ".join(tokens)
RECURSIVE join(_)
join(tokens) ==
  IF tokens = <<>> THEN <<>>
  ELSE IF Len(tokens) = 1 THEN tokens[1]
  ELSE tokens[1] \o <<32>> \o join(Tail(tokens))

IsSpace(c) == InRanges(c, SpaceRanges)

RECURSIVE lstrip(_)
lstrip(s) == IF s # <<>> /\ IsSpace(Head(s)) THEN lstrip(Tail(s)) ELSE s

RECURSIVE rstrip(_)
rstrip(s) == IF s # <<>> /\ IsSpace(s[Len(s)]) THEN rstrip(SubSeq(s, 1, Len(s) - 1)) ELSE s

strip(s) == rstrip(lstrip(s))

\* The value of a character of the base64 alphabet, -1 for any other.
B64Value(c) ==
  IF c >= 65 /\ c <= 90 THEN c - 65
  ELSE IF c >= 97 /\ c <= 122 THEN c - 71
  ELSE IF c >= 48 /\ c <= 57 THEN c + 4
  ELSE IF c = 43 THEN 62
  ELSE IF c = 47 THEN 63
  ELSE -1

\* The data characters of a base64 text: those before its first "=".
B64Data(s) ==
  IF \E i \in 1..Len(s) : s[i] = 61
    THEN SubSeq(s, 1, (CHOOSE i \in 1..Len(s) :
                         s[i] = 61 /\ \A j \in 1..(i - 1) : s[j] # 61) - 1)
    ELSE s

\* Strict decoding accepts: data characters of the alphabet only, followed by
\* "=" only; no leading padding; whole quanta with any padding, or a last
\* quantum of 2 characters with "==" or of 3 characters with "=".
B64Valid(s) ==
  LET data == B64Data(s)
      d == Len(data)
      pad == Len(s) - d
  IN /\ \A i \in 1..d : B64Value(data[i]) >= 0
     /\ \A i \in (d + 1)..Len(s) : s[i] = 61
     /\ (pad > 0 => d > 0)
     /\ \/ d % 4 = 0
        \/ d % 4 = 2 /\ pad = 2
        \/ d % 4 = 3 /\ pad = 1

\* The k-th byte (1-based) of the decoding of the data characters.
B64Byte(data, k) ==
  LET g == 4 * ((k - 1) \div 3)
      six(i) == IF g + i <= Len(data) THEN B64Value(data[g + i]) ELSE 0
  IN CASE (k - 1) % 3 = 0 -> six(1) * 4 + (six(2) \div 16)
       [] (k - 1) % 3 = 1 -> (six(2) % 16) * 16 + (six(3) \div 4)
       [] OTHER -> (six(3) % 4) * 64 + six(4)

B64NBytes(data) ==
  3 * (Len(data) \div 4) + (CASE Len(data) % 4 = 2 -> 1 [] Len(data) % 4 = 3 -> 2 [] OTHER -> 0)

\* base64.b64decode(payload, validate=True): the bytes; defined where
\* B64Valid holds, the call raises elsewhere.
b64decode(payload) ==
  LET data == B64Data(payload) IN [k \in 1..B64NBytes(data) |-> B64Byte(data, k)]

\* The length of the UTF-8 sequence a byte starts, 0 for a byte that starts
\* none.
Utf8Length(b) ==
  IF b < 128 THEN 1
  ELSE IF b >= 194 /\ b <= 223 THEN 2
  ELSE IF b >= 224 /\ b <= 239 THEN 3
  ELSE IF b >= 240 /\ b <= 244 THEN 4
  ELSE 0

\* Whether byte b may be the k-th byte (k > 1) of a sequence that starts
\* with lead.
Utf8Follows(lead, k, b) ==
  IF k > 2 THEN b >= 128 /\ b <= 191
  ELSE CASE lead = 224 -> b >= 160 /\ b <= 191
         [] lead = 237 -> b >= 128 /\ b <= 159
         [] lead = 240 -> b >= 144 /\ b <= 191
         [] lead = 244 -> b >= 128 /\ b <= 143
         [] OTHER -> b >= 128 /\ b <= 191

\* How many bytes from position i on are the start of one well-formed
\* sequence (at least 1).
Utf8Prefix(raw, i) ==
  LET n == Utf8Length(raw[i])
      good(k) == i + k - 1 <= Len(raw) /\ Utf8Follows(raw[i], k, raw[i + k - 1])
  IN IF n >= 2 /\ good(2)
       THEN IF n >= 3 /\ good(3)
              THEN IF n >= 4 /\ good(4) THEN 4 ELSE 3
              ELSE 2
       ELSE 1

\* The code point of the well-formed sequence of n bytes at position i.
Utf8Point(raw, i, n) ==
  CASE n = 1 -> raw[i]
    [] n = 2 -> (raw[i] - 192) * 64 + (raw[i + 1] - 128)
    [] n = 3 -> (raw[i] - 224) * 4096 + (raw[i + 1] - 128) * 64 + (raw[i + 2] - 128)
    [] OTHER -> (raw[i] - 240) * 262144 + (raw[i + 1] - 128) * 4096
                + (raw[i + 2] - 128) * 64 + (raw[i + 3] - 128)

\* raw.decode("utf-8", errors="replace") from position i on: a well-formed
\* sequence gives its code point, every maximal ill-formed part U+FFFD.
RECURSIVE utf8_from(_, _)
utf8_from(raw, i) ==
  IF i > Len(raw) THEN <<>>
  ELSE LET n == Utf8Length(raw[i])
           m == Utf8Prefix(raw, i)
       IN IF n > 0 /\ m = n
            THEN <<Utf8Point(raw, i, n)>> \o utf8_from(raw, i + n)
            ELSE <<65533>> \o utf8_from(raw, i + m)

utf8_replace(raw) == utf8_from(raw, 1)


(***************************************************************************)
(* decode: the text part of cmd_decode (everything up to the flag          *)
(* updates), a function of the arguments and of last_cipher alone.         *)
(***************************************************************************)
DecodeOutcome(msg, text, ember, lattice) ==
  [msg |-> msg, text |-> text, ember |-> ember, lattice |-> lattice]

\* The names cmd_decode takes for each cipher, and the keywords it scans for.
Rot13Names == {Codes("rot13"), Codes("rot"), Codes("r13")}

B64Names == {Codes("b64"), Codes("base64")}

EMBER == Codes("EMBER")

LATTICE == Codes("LATTICE")

decode(args, last_cipher) ==
  IF args = <<>> THEN DecodeOutcome("Usage: decode rot13|b64 <text>", <<>>, FALSE, FALSE)
  ELSE
    LET cipher == lower(args[1])
        given == IF Len(args) > 1 THEN Some(strip(join(Tail(args)))) ELSE None
        payload == IF Falsy(given) THEN last_cipher ELSE given
    IN IF Falsy(payload)
         THEN DecodeOutcome("No cached cipher. Read a cipher file first.", <<>>, FALSE, FALSE)
       ELSE IF cipher \in Rot13Names
         THEN LET result == rot_13(payload[1]) IN
              DecodeOutcome("Decoded:", result,
                            Contains(upper(result), EMBER), Contains(upper(result), LATTICE))
       ELSE IF cipher \in B64Names
         THEN IF ~B64Valid(payload[1])
                THEN DecodeOutcome("Base64 decode failed.", <<>>, FALSE, FALSE)
                ELSE LET result == utf8_replace(b64decode(payload[1])) IN
                     DecodeOutcome("Decoded:", result,
                                   Contains(upper(result), EMBER),
                                   Contains(upper(result), LATTICE))
       ELSE DecodeOutcome("Unknown cipher. Use rot13 or b64.", <<>>, FALSE, FALSE)

\* The argument lists the player types after "decode". The last four hold
\* a payload that is a form feed, the base64 of the UTF-8 bytes of "latt",
\* U+0131 (dotless i), "ce", the base64 of a three-byte sequence cut short
\* after two bytes, and the rot13 of U+FB02 (the ligature fl, FL in upper
\* case), "attice".
DecodeArgs ==
  { <<>>,
    Words(<<"rot13">>), Words(<<"b64">>), Words(<<"hex">>),
    Words(<<"ROT13", "ynggvpr">>),
    Words(<<"rot", "rzore", "ynggvpr">>),
    Words(<<"r13", "">>),
    <<Codes("base64"), key_b64>>,
    Words(<<"b64", "U0lH!">>),
    Words(<<"b64", "/w==">>),
    Words(<<"hex", "rzore">>),
    Words(<<"rot13", "\f">>),
    Words(<<"b64", "bGF0dMSxY2U=">>),
    Words(<<"b64", "4oI=">>),
    <<Codes("rot13"), <<64258>> \o Codes("nggvpr")>> }

\* The values last_cipher takes: the cipher files' contents, and what a save
\* file written by another program holds.
LastCiphers == {None, Some(cipher_txt), Some(cache_rot13), Some(key_b64), Some(<<>>)}

\* decode on the arguments and caches above, computed once.
DecodeTable == [a \in DecodeArgs, c \in LastCiphers |-> decode(a, c)]

\* cmd_decode that drops the cached cipher when the decode fails.
cmd_decode_forgetful(state, args) ==
  LET r == IF <<args, state.last_cipher>> \in DOMAIN DecodeTable
             THEN DecodeTable[args, state.last_cipher]
             ELSE decode(args, state.last_cipher)
      hit_ember == r.ember /\ "ember_phrase" \notin state.flags
      s1 == IF hit_ember
              THEN log_event(add_flag(state, "ember_phrase"),
                             "Decoded ember phrase")
              ELSE state
      hit_lattice == r.lattice /\ "lattice_sigil" \notin s1.flags
      s2 == IF hit_lattice
              THEN log_event(add_flag(s1, "lattice_sigil"),
                             "Decoded lattice sigil")
              ELSE s1
  IN IF r.msg = "Decoded:" THEN Shown(s2, r.msg, <<r.text>>, <<>>)
     ELSE Shown([state EXCEPT !.last_cipher = None], r.msg, <<>>, <<>>)

cmd_decode(state, args) ==
  LET r == IF <<args, state.last_cipher>> \in DOMAIN DecodeTable
             THEN DecodeTable[args, state.last_cipher]
             ELSE decode(args, state.last_cipher)
      hit_ember == r.ember /\ "ember_phrase" \notin state.flags
      s1 == IF hit_ember
              THEN log_event(add_flag(state, "ember_phrase"),
                             "Decoded ember phrase")
              ELSE state
      hit_lattice == r.lattice /\ "lattice_sigil" \notin s1.flags
      s2 == IF hit_lattice
              THEN log_event(add_flag(s1, "lattice_sigil"),
                             "Decoded lattice sigil")
              ELSE s1
  IN IF r.msg = "Decoded:" THEN Shown(s2, r.msg, <<r.text>>, <<>>)
     ELSE Shown(state, r.msg, <<>>, <<>>)

(***************************************************************************)
(* scan                                                                    *)
(***************************************************************************)
\* a < b for two texts: code point by code point, a proper prefix first.
LessText(a, b) ==
  \E i \in 1..Len(b) :
    /\ i <= Len(a) + 1
    /\ \A j \in 1..(i - 1) : a[j] = b[j]
    /\ (i = Len(a) + 1 \/ a[i] < b[i])

\* The strings of a set in ascending order of their keys.
RECURSIVE SortKeyed(_, _)
SortKeyed(set, key) ==
  IF set = {} THEN <<>>
  ELSE LET least == CHOOSE x \in set : \A y \in set \ {x} : LessText(key[x], key[y])
       IN <<least>> \o SortKeyed(set \ {least}, key)

\* sorted() of a set of strings (strings compare by code point).
Sort(set) == SortKeyed(set, [x \in set |-> Codes(x)])

\* The ids the program's own commands put into the sets of the state, and
\* those of the save files below; IdOrder is their sorted list, computed
\* once and reused for the sets made of them.
KnownIds ==
  { "archives.arc", "badge.sig", "core.relic", "corp.audit", "ember_phrase", "fork",
    "forked", "ghost", "ghosted", "hub.home", "lattice.cache", "lattice_sigil",
    "market.node", "mask.dat", "nope", "perimeter.gate", "relay.shard", "relic.key",
    "sniffer", "sniffer_run", "splice", "spoof", "token.key", "trace_open", "tracer",
    "void.node", "weaver.den", "weaver.mark" }

IdOrder == Sort(KnownIds)

sorted(set) ==
  IF set \subseteq KnownIds THEN SelectSeq(IdOrder, LAMBDA x : x \in set) ELSE Sort(set)

\* a: the other discovered nodes, sorted; b: OPEN or LOCKED for each.
cmd_scan(state, args) ==
  LET nodes == sorted(state.discovered \ {state.location}) IN
  IF nodes = <<>> THEN Shown(state, "No other signals.", <<>>, <<>>)
  ELSE IF \E n \in Range(nodes) : n \notin NodeIds THEN Raised(state, "KeyError")
  ELSE Shown(state, "Signals:", nodes,
             [i \in 1..Len(nodes) |->
                IF requirements_for(state, nodes[i]).ok THEN "OPEN" ELSE "LOCKED"])


(***************************************************************************)
(* Persistence: save.json is absent, or holds text from which load_state   *)
(* raises (no JSON, or JSON that is no object), or an object. An object is *)
(* the set of keys it has and their values (val holds a default under      *)
(* every key the object lacks).                                            *)
(***************************************************************************)
Fields == {"handle", "location", "inventory", "scripts", "flags", "discovered",
           "log", "visited", "last_cipher", "ended"}

NoData ==
  [handle |-> <<>>, location |-> "", inventory |-> <<>>, scripts |-> <<>>, flags |-> <<>>,
   discovered |-> <<>>, log |-> <<>>, visited |-> <<>>, last_cipher |-> None, ended |-> FALSE]

NoFile == [kind |-> "none", has |-> {}, val |-> NoData]

GarbageFile == [kind |-> "garbage", has |-> {}, val |-> NoData]

ObjectFile(has, val) ==
  [kind |-> "object", has |-> has,
   val |-> [k \in Fields |-> IF k \in has THEN val[k] ELSE NoData[k]]]

\* serialize_state with the "inventory" list left empty.
serialize_state_no_inventory(state) ==
  [handle |-> state.handle,
   location |-> state.location,
   inventory |-> <<>>,
   scripts |-> sorted(state.scripts),
   flags |-> sorted(state.flags),
   discovered |-> sorted(state.discovered),
   log |-> state.log,
   visited |-> sorted(state.visited),
   last_cipher |-> state.last_cipher,
   ended |-> state.ended]

serialize_state(state) ==
  [handle |-> state.handle,
   location |-> state.location,
   inventory |-> sorted(state.inventory),
   scripts |-> sorted(state.scripts),
   flags |-> sorted(state.flags),
   discovered |-> sorted(state.discovered),
   log |-> state.log,
   visited |-> sorted(state.visited),
   last_cipher |-> state.last_cipher,
   ended |-> state.ended]

\* json.dump of the serialized state, every key present.
cmd_save(state) == ObjectFile(Fields, serialize_state(state))

\* data.get(key, default)
Get(data, key, default) == IF key \in data.has THEN data.val[key] ELSE default

\* load_state: raises when the file is no JSON or no object; builds the state
\* from the object's keys otherwise.
load_state(data) ==
  IF data.kind # "object" THEN Raised(fresh_state(<<>>), "Exception")
  ELSE
    LET base == fresh_state(Get(data, "handle", Ghost))
        location == Get(data, "location", "hub.home")
        discovered == Range(Get(data, "discovered", <<>>))
    IN Shown([base EXCEPT
                !.location = location,
                !.inventory = Range(Get(data, "inventory", <<>>)),
                !.scripts = Range(Get(data, "scripts", <<>>)),
                !.flags = Range(Get(data, "flags", <<>>)),
                !.discovered = IF location \notin discovered
                                 THEN discovered \cup {location} ELSE discovered,
                !.log = Get(data, "log", <<>>),
                !.visited = Range(Get(data, "visited", <<>>)),
                !.last_cipher = Get(data, "last_cipher", None),
                !.ended = Get(data, "ended", FALSE)],
             "", <<>>, <<>>)

\* cmd_load: the state handed back to the command loop. enter_node runs
\* outside the try block: its KeyError leaves the handler.
cmd_load(state, data) ==
  IF data.kind = "none" THEN Shown(state, "No save file found.", <<>>, <<>>)
  ELSE LET loaded == load_state(data) IN
    IF loaded.raised THEN Shown(state, "Failed to load save file.", <<>>, <<>>)
    ELSE IF loaded.state.location \notin NodeIds THEN Raised(state, "KeyError")
    ELSE Shown(enter_node(loaded.state, loaded.state.location), "Save loaded.", <<>>, <<>>)

\* The answer that loads the save file.
Yes == Codes("y")

\* start_state: answer and handle are what input() returns at "Load save?"
\* and at "HANDLE? ", the text typed or None when stdin has ended, on which
\* input() raises EOFError. The answer is asked for only when save.json
\* exists, the handle only when nothing was loaded.
start_state(data, answer, handle) ==
  IF data.kind # "none" /\ answer = None
    THEN Raised(fresh_state(<<>>), "EOFError")
  ELSE IF /\ data.kind # "none"
          /\ lower(strip(answer[1])) = Yes
          /\ ~load_state(data).raised
    THEN Shown(load_state(data).state, "", <<>>, <<>>)
  ELSE IF handle = None
    THEN Raised(fresh_state(<<>>), "EOFError")
  ELSE Shown(fresh_state(strip(handle[1])), "", <<>>, <<>>)

\* main up to the first prompt: start_state, then enter_node. An exception
\* of start_state leaves main.
main(data, answer, handle) ==
  LET started == start_state(data, answer, handle)
      state == started.state
  IN
  IF started.raised THEN started
  ELSE IF state.location \notin NodeIds THEN Raised(state, "KeyError")
  ELSE Shown(enter_node(state, state.location), ":: " \o state.location, <<>>, <<>>)


(***************************************************************************)
(* Inputs                                                                  *)
(***************************************************************************)
\* What input() returns at "Load save? (y/N) ": y in either case and with
\* blanks around it, another answer, an empty line, and the end of stdin.
Answers == {Some(Yes), Some(Codes(" Y\t")), Some(Codes("n")), Some(<<>>), None}

\* What input() returns at "HANDLE? ": an empty line, a blank line, a name
\* with white space around it, and the end of stdin.
Handles == {Some(<<>>), Some(Codes("  ")), Some(Codes(" neo\t")), None}

\* Argument lists of connect: none, every node, and a name that is no node.
ConnectArgs == {<<>>} \cup {<<n>> : n \in NodeIds \cup {"void.node"}}

\* Argument lists of cat and download: none, the files of the current node,
\* a file of another node, and a name no node has.
FileArgs(state) ==
  {<<>>} \cup {<<f>> : f \in DOMAIN current_files(state) \cup {"fork.s", "nope.txt"}}

\* Argument lists of run: none, every script by id, two by file name, and an
\* id that is no script, plain and with the suffix of a file name.
RunArgs == {<<>>} \cup {<<x>> : x \in SCRIPTS \cup {"tracer.s", "spoof.s", "nope", "nope.s"}}

\* save.json as another program (or an earlier version) may have left it:
\* text that is no JSON, an empty object, and
\*   ExtArchive  a late-game record in the archive, fork not yet run, with an
\*               unknown script id in the kit and an unknown node discovered
\*   ExtCore     a record at the core, no ending taken yet
\*   ExtDen      a mid-game record in the den, weaver.mark not yet taken
\*   ExtBare     ExtDen without its "inventory", "flags" and "discovered" keys
\*   ExtVoid     a record whose location is no node
\*   ExtEnded    a record that holds nothing but "ended": true
Neo == Codes("neo")

ExtArchive ==
  [handle |-> Neo, location |-> "archives.arc",
   inventory |-> sorted(ITEMS), scripts |-> <<"nope", "splice">>,
   flags |-> <<"ember_phrase", "ghosted", "lattice_sigil", "sniffer_run", "trace_open">>,
   discovered |-> <<"archives.arc", "corp.audit", "hub.home", "lattice.cache", "market.node",
                    "perimeter.gate", "void.node", "weaver.den">>,
   log |-> <<"Entered hub.home", "Entered archives.arc">>,
   visited |-> <<"archives.arc", "hub.home">>,
   last_cipher |-> Some(key_b64), ended |-> FALSE]

ExtCore ==
  [handle |-> Neo, location |-> "core.relic",
   inventory |-> <<"relay.shard", "relic.key">>, scripts |-> <<"fork">>,
   flags |-> <<"forked", "lattice_sigil">>,
   discovered |-> <<"core.relic", "hub.home">>,
   log |-> <<"Entered core.relic">>,
   visited |-> <<"core.relic">>,
   last_cipher |-> None, ended |-> FALSE]

ExtDen ==
  [handle |-> <<>>, location |-> "weaver.den",
   inventory |-> <<"badge.sig", "mask.dat">>, scripts |-> <<>>,
   flags |-> <<"sniffer_run", "trace_open">>,
   discovered |-> <<"corp.audit", "hub.home", "lattice.cache", "market.node",
                    "perimeter.gate", "weaver.den">>,
   log |-> <<"Entered hub.home", "Entered weaver.den">>,
   visited |-> <<"hub.home", "weaver.den">>,
   last_cipher |-> Some(<<>>), ended |-> FALSE]

ExtVoid == [NoData EXCEPT !.location = "void.node"]

ExtBare == ObjectFile(Fields \ {"inventory", "flags", "discovered"}, ExtDen)

ExtEnded == [NoData EXCEPT !.ended = TRUE]

ExtFiles ==
  { GarbageFile,
    ObjectFile({}, NoData),
    ObjectFile(Fields, ExtArchive),
    ObjectFile(Fields, ExtCore),
    ObjectFile(Fields, ExtDen),
    ExtBare,
    ObjectFile({"location"}, ExtVoid),
    ObjectFile({"ended"}, ExtEnded) }

(***************************************************************************)
(* The session: main's command loop, one action per command.               *)
(*   st    the player state the loop holds                                 *)
(*   file  save.json                                                       *)
(*   pc    "loop" at the prompt, "exited" after quit, "crashed" after an   *)
(*         exception left main (both end the process)                      *)
(*   last  the last command, the line it showed and the lists in it        *)
(*   snap  the state at the save that wrote file (history), <<>> when file *)
(*         was not written by save                                         *)
(*   base  the log entries the play had made before the first state, 0     *)
(*         when the first state is the one main starts with                *)
(***************************************************************************)
VARIABLES st, file, pc, last, snap, base

vars == <<st, file, pc, last, snap, base>>

\* Once the process has ended there is no player state.
NoState == fresh_state(<<>>)

Echo(cmd, r) == [cmd |-> cmd, msg |-> r.msg, a |-> r.a, b |-> r.b, tip |-> r.tip]

\* handle_command returns the handler's state to the loop; an exception
\* leaving the handler ends the process. Commands that would take the log
\* past MaxLog (counted from base) are not taken.
Handled(cmd, r) ==
  /\ Len(r.state.log) <= base + MaxLog
  /\ base' = base
  /\ last' = Echo(cmd, r)
  /\ IF r.raised
       THEN pc' = "crashed" /\ st' = NoState
       ELSE pc' = "loop" /\ st' = r.state

\* main at a machine that holds no save file.
Init ==
  /\ file = NoFile
  /\ snap = <<>>
  /\ base = 0
  /\ \E h \in Handles :
       \E r \in {main(NoFile, None, h)} :
       /\ last = Echo("main", r)
       /\ IF r.raised
            THEN pc = "crashed" /\ st = NoState
            ELSE pc = "loop" /\ st = r.state

\* main at a machine that may hold a save file this run did not write.
InitAny ==
  /\ file \in {NoFile} \cup ExtFiles
  /\ snap = <<>>
  /\ base = 0
  /\ \E answer \in Answers, h \in Handles :
       LET r == main(file, answer, h) IN
       /\ last = Echo("main", r)
       /\ IF r.raised
            THEN pc = "crashed" /\ st = NoState
            ELSE pc = "loop" /\ st = r.state

Connect ==
  /\ pc = "loop"
  /\ \E args \in ConnectArgs : Handled("connect", cmd_connect(st, args))
  /\ UNCHANGED <<file, snap>>

Home ==
  /\ pc = "loop"
  /\ Handled("home", cmd_home(st, <<>>))
  /\ UNCHANGED <<file, snap>>

Cat ==
  /\ pc = "loop"
  /\ \E args \in FileArgs(st) : Handled("cat", cmd_cat(st, args))
  /\ UNCHANGED <<file, snap>>

Download ==
  /\ pc = "loop"
  /\ \E args \in FileArgs(st) : Handled("download", cmd_download(st, args))
  /\ UNCHANGED <<file, snap>>

Run ==
  /\ pc = "loop"
  /\ \E args \in RunArgs : Handled("run", cmd_run(st, args))
  /\ UNCHANGED <<file, snap>>

Decode ==
  /\ pc = "loop"
  /\ \E args \in DecodeArgs : Handled("decode", cmd_decode(st, args))
  /\ UNCHANGED <<file, snap>>

Scan ==
  /\ pc = "loop"
  /\ Handled("scan", cmd_scan(st, <<>>))
  /\ UNCHANGED <<file, snap>>

\* help, ls, inventory, profile, log, an unknown command, an empty or a
\* malformed line: output only.
Info ==
  /\ pc = "loop"
  /\ Handled("info", Shown(st, "", <<>>, <<>>))
  /\ UNCHANGED <<file, snap>>

Exfiltrate ==
  /\ pc = "loop"
  /\ Handled("exfiltrate", cmd_exfiltrate(st, <<>>))
  /\ UNCHANGED <<file, snap>>

Restore ==
  /\ pc = "loop"
  /\ Handled("restore", cmd_restore(st, <<>>))
  /\ UNCHANGED <<file, snap>>

Save ==
  /\ pc = "loop"
  /\ file' = cmd_save(st)
  /\ snap' = <<st>>
  /\ Handled("save", Shown(st, "Saved to save.json", <<>>, <<>>))

Load ==
  /\ pc = "loop"
  /\ Handled("load", cmd_load(st, file))
  /\ UNCHANGED <<file, snap>>

\* quit, exit, q: sys.exit(0).
Quit ==
  /\ pc = "loop"
  /\ pc' = "exited"
  /\ st' = NoState
  /\ last' = Echo("quit", Shown(st, "", <<>>, <<>>))
  /\ UNCHANGED <<file, snap, base>>

Next ==
  \/ Connect \/ Home \/ Cat \/ Download \/ Run \/ Decode \/ Scan \/ Info
  \/ Exfiltrate \/ Restore \/ Save \/ Load \/ Quit

\* The program started with any save file, or none, in place.
Spec == InitAny /\ [][Next]_vars

\* The program started with no save file: save.json is written by the save
\* command only.
SpecSaved == Init /\ [][Next]_vars

\* A line of the player as handle_command has split it: cmd is
\* parts[0].lower(), args is parts[1:].
Typed(cmd, args) == [cmd |-> cmd, args |-> args]

\* handle_command's dispatch on a command and its arguments, with save.json
\* as it stands: what the handler leaves (out) and save.json afterwards.
\* help, ls, inventory, profile and log only print.
Apply(state, data, c) ==
  [out |->
     CASE c.cmd \in {"help", "?"} -> Shown(state, "", <<>>, <<>>)
       [] c.cmd = "scan" -> cmd_scan(state, c.args)
       [] c.cmd \in {"connect", "go"} -> cmd_connect(state, c.args)
       [] c.cmd = "ls" -> Shown(state, "", <<>>, <<>>)
       [] c.cmd \in {"cat", "read"} -> cmd_cat(state, c.args)
       [] c.cmd = "download" -> cmd_download(state, c.args)
       [] c.cmd = "run" -> cmd_run(state, c.args)
       [] c.cmd = "decode" -> cmd_decode(state, c.args)
       [] c.cmd \in {"inventory", "inv"} -> Shown(state, "", <<>>, <<>>)
       [] c.cmd = "profile" -> Shown(state, "", <<>>, <<>>)
       [] c.cmd = "log" -> Shown(state, "", <<>>, <<>>)
       [] c.cmd = "home" -> cmd_home(state, c.args)
       [] c.cmd = "save" -> Shown(state, "Saved to save.json", <<>>, <<>>)
       [] c.cmd = "load" -> cmd_load(state, data)
       [] c.cmd = "exfiltrate" -> cmd_exfiltrate(state, c.args)
       [] c.cmd = "restore" -> cmd_restore(state, c.args)
       [] c.cmd \in {"quit", "exit", "q"} -> Raised(state, "SystemExit")
       [] OTHER -> Shown(state, "Unknown command. Type help for options.", <<>>, <<>>),
   file |-> IF c.cmd = "save" THEN cmd_save(state) ELSE data]

\* The command loop on a list of commands, from each of a set of runs: a
\* run whose last command raised has ended, any other goes on with the next
\* command.
RECURSIVE PlayAll(_, _)
PlayAll(runs, cmds) ==
  IF cmds = <<>> THEN runs
  ELSE PlayAll({IF r.out.raised THEN r ELSE Apply(r.out.state, r.file, Head(cmds)) :
                  r \in runs},
               Tail(cmds))

\* A play from the fresh state through every node a player can enter.
Walkthrough ==
  << Typed("run", <<"tracer">>),
     Typed("go", <<"market.node">>),
     Typed("run", <<"sniffer">>),
     Typed("run", <<"spoof">>),
     Typed("connect", <<"perimeter.gate">>),
     Typed("read", <<"cipher.txt">>),
     Typed("decode", Words(<<"rot13">>)),
     Typed("download", <<"badge.sig">>),
     Typed("connect", <<"weaver.den">>),
     Typed("download", <<"weaver.mark">>),
     Typed("run", <<"splice">>),
     Typed("run", <<"ghost">>),
     Typed("connect", <<"corp.audit">>),
     Typed("download", <<"relay.shard">>),
     Typed("decode", Words(<<"ROT13", "ynggvpr">>)),
     Typed("connect", <<"lattice.cache">>),
     Typed("download", <<"relic.key">>) >>

\* The walkthrough is played by a player who has given a name.
Named == {h \in Handles : h # None /\ strip(h[1]) # <<>>}

\* How many commands of the walkthrough have been played when the first
\* state is taken: none, and those up to the arrival at corp.audit (token.key
\* forged, ghosted set, lattice.cache discovered and still locked).
WalkStops == {0, 13}

\* The program started with no save file, after a player has typed the
\* first commands of the walkthrough.
InitDeep ==
  /\ snap = <<>>
  /\ \E h \in Named, k \in WalkStops :
       \E r \in PlayAll({[out |-> main(NoFile, None, h), file |-> NoFile]},
                        SubSeq(Walkthrough, 1, k)) :
       /\ file = r.file
       /\ IF r.out.raised
            THEN /\ pc = "crashed"
                 /\ st = NoState
                 /\ last = Echo("main", r.out)
                 /\ base = 0
            ELSE /\ pc = "loop"
                 /\ st = r.out.state
                 /\ last = Echo(IF k = 0 THEN "main" ELSE Walkthrough[k].cmd, r.out)
                 /\ base = IF k = 0 THEN 0 ELSE Len(r.out.state.log) - 2

\* As SpecSaved, from the fresh state and from later states of a play.
SpecDeep == InitDeep /\ [][Next]_vars


(***************************************************************************)
(* What play can ever obtain. Possessions only grow and every guard asks   *)
(* for possessions, so the closure below holds whatever any sequence of    *)
(* commands can obtain from a state; it does not depend on MaxLog.         *)
(***************************************************************************)
\* The states one connect or home away (the player may also stay).
Moves(s) ==
  {s, cmd_home(s, <<>>).state}
    \cup {cmd_connect(s, <<n>>).state : n \in s.discovered \cap NodeIds}

\* The states one further command away.
Steps(t) ==
  {cmd_cat(t, a).state : a \in FileArgs(t)}
    \cup {cmd_download(t, a).state : a \in FileArgs(t)}
    \cup {cmd_run(t, a).state : a \in RunArgs}
    \cup {cmd_decode(t, a).state : a \in DecodeArgs}
    \cup {cmd_scan(t, <<>>).state, cmd_exfiltrate(t, <<>>).state,
          cmd_restore(t, <<>>).state}

\* s with everything some state of the set holds.
Gain(s, set) ==
  [s EXCEPT !.inventory = @ \cup UNION {u.inventory : u \in set},
            !.scripts = @ \cup UNION {u.scripts : u \in set},
            !.flags = @ \cup UNION {u.flags : u \in set},
            !.discovered = @ \cup UNION {u.discovered : u \in set},
            !.ended = @ \/ (\E u \in set : u.ended)]

RECURSIVE Quest(_)
Quest(s) ==
  LET g == Gain(s, UNION {Steps(t) : t \in Moves(s)}) IN
  IF g = s THEN s ELSE Quest(g)


(***************************************************************************)
(* Properties                                                              *)
(***************************************************************************)
\* C1: from the fresh state some finite sequence of commands reaches an
\* ending, that is, a state with ended = TRUE. If there is one, ended is
\* among what play can obtain from the state main starts with.
C1_EndingReachable == last.cmd = "main" => Quest(st).ended

\* C2: every transition that sets the location (a connect that goes through,
\* home, a load that goes through) leaves the player at a node whose entry
\* requirements the state meets.
C2_GateHoldsAtLocation ==
  ( /\ pc = "loop"
    /\ \/ last.cmd = "connect" /\ last.msg = ":: " \o st.location
       \/ last.cmd = "home"
       \/ last.cmd = "load" /\ last.msg = "Save loaded." )
  => requirements_for(st, st.location).ok

\* C3: at every prompt the location is among the discovered nodes.
C3_LocationDiscovered == pc = "loop" => st.location \in st.discovered

\* C4 as stated: every command that returns to the prompt, load included,
\* keeps every flag that was set.
C4_FlagsMonotonic == [][pc' = "loop" => st.flags \subseteq st'.flags]_vars

\* C4, amended: every command other than load keeps every flag that was set.
C4_FlagsMonotonicExceptLoad ==
  [][pc' = "loop" /\ last'.cmd # "load" => st.flags \subseteq st'.flags]_vars

\* A script has just set a flag next to one that decode had set before.
C4_Witness ==
  /\ pc = "loop"
  /\ last.cmd = "run"
  /\ last.msg = "Tracer online. Mesh resolved."
  /\ {"ember_phrase", "trace_open"} \subseteq st.flags

\* The commands whose handlers write to the state.
Mutating ==
  {"connect", "home", "cat", "download", "run", "decode", "exfiltrate", "restore"}

\* C5: once ended is TRUE no state-mutating command changes any field; so
\* restore after exfiltrate at core.relic leaves the log as it was.
C5_EndedFreezesState ==
  [][st.ended /\ pc' = "loop" /\ last'.cmd \in Mutating => st' = st]_vars

\* C6 as stated: at core.relic exfiltrate and restore set ended and append
\* exactly one log entry; anywhere else they leave every field as it was;
\* and ended is TRUE only in a session in which one of the two was issued at
\* core.relic: not at the first prompt, and no other step turns it TRUE.
C6_EndedOnlyByEndings ==
  /\ (last.cmd = "main" => ~st.ended)
  /\ [][pc' = "loop" =>
          /\ last'.cmd \in {"exfiltrate", "restore"} =>
               IF st.location = "core.relic"
                 THEN st' = [st EXCEPT !.ended = TRUE,
                                       !.log = Append(@, "Ending: " \o last'.cmd)]
                 ELSE st' = st
          /\ ~st.ended /\ st'.ended =>
               last'.cmd \in {"exfiltrate", "restore"} /\ st.location = "core.relic"]_vars

\* C6, amended: at core.relic exfiltrate and restore set ended and append
\* exactly one log entry; anywhere else they leave every field as it was;
\* and ended is TRUE only by one of the two at core.relic or by the load,
\* at the start or by the command, of a record whose ended is true.
C6_EndingsOnlyAtCore ==
  /\ (last.cmd = "main" /\ st.ended => file.val.ended)
  /\ [][pc' = "loop" =>
          /\ last'.cmd \in {"exfiltrate", "restore"} =>
               IF st.location = "core.relic"
                 THEN st' = [st EXCEPT !.ended = TRUE,
                                       !.log = Append(@, "Ending: " \o last'.cmd)]
                 ELSE st' = st
          /\ ~st.ended /\ st'.ended =>
               \/ last'.cmd \in {"exfiltrate", "restore"} /\ st.location = "core.relic"
               \/ last'.cmd = "load" /\ file.val.ended]_vars

\* exfiltrate has just ended the game at core.relic.
C6_Witness ==
  /\ pc = "loop"
  /\ last.cmd = "exfiltrate"
  /\ st.location = "core.relic"
  /\ st.ended
  /\ st.log[Len(st.log)] = "Ending: exfiltrate"

\* A save file load cannot use: none, text that is no JSON object, or a
\* record whose location names no node.
Unusable(f) ==
  f.kind # "object" \/ Get(f, "location", "hub.home") \notin NodeIds

\* C7: load is all-or-nothing and never fatal: with the file missing or
\* unusable it reports the failure, the state stays as it was and the
\* command loop goes on.
C7_LoadAllOrNothing ==
  [][pc = "loop" /\ last'.cmd = "load" /\ Unusable(file) =>
       /\ pc' = "loop"
       /\ st' = st
       /\ last'.msg \in {"No save file found.", "Failed to load save file."}]_vars

\* C8: after save, any commands and then load, every field of the state
\* (handle, location, inventory, scripts, flags, discovered, log, visited,
\* last_cipher, ended) equals what it was at the save.
C8_RoundTrip ==
  pc = "loop" /\ last.cmd = "load" /\ snap # <<>> =>
    last.msg = "Save loaded." /\ st = snap[1]

\* A load has just brought back a saved state that held items, a script,
\* flags and a cached cipher and had visited five nodes.
C8_Witness ==
  /\ pc = "loop"
  /\ last.cmd = "load"
  /\ snap # <<>>
  /\ st = snap[1]
  /\ {"badge.sig", "mask.dat", "weaver.mark", "token.key"} \subseteq st.inventory
  /\ st.scripts # {}
  /\ {"trace_open", "sniffer_run", "ember_phrase", "ghosted"} \subseteq st.flags
  /\ st.last_cipher = Some(cipher_txt)
  /\ Cardinality(st.visited) >= 5
  /\ Len(st.log) >= 10

\* C9: at every prompt the discovered nodes include hub.home.
C9_HomeDiscovered == pc = "loop" => "hub.home" \in st.discovered

\* What splice asks for, in the order it reports it.
SpliceNeeds == <<"badge.sig", "mask.dat", "weaver.mark">>

\* The script can be run: it is in the kit or a file of the node.
Runnable(state, script_id) ==
  \/ script_id \in state.scripts
  \/ \E f \in DOMAIN current_files(state) :
       current_files(state)[f].kind = "script" /\ current_files(state)[f].id = script_id

\* C10: run splice without token.key and with some of badge.sig, mask.dat,
\* weaver.mark missing reports exactly the missing ones in that order and
\* changes nothing; run ghost without the ghosted flag and without
\* weaver.mark reports its requirement and changes nothing.
C10_BlockedScriptsKeepState ==
  pc = "loop" =>
    LET splice == cmd_run(st, <<"splice">>)
        ghost == cmd_run(st, <<"ghost">>)
        lacking == SelectSeq(SpliceNeeds, LAMBDA i : i \notin st.inventory)
    IN
    /\ ( /\ Runnable(st, "splice")
         /\ "token.key" \notin st.inventory
         /\ lacking # <<>> )
       => /\ splice.state = st
          /\ ~splice.raised
          /\ splice.msg = "Splice failed. Missing: "
          /\ splice.a = lacking
    /\ ( /\ Runnable(st, "ghost")
         /\ "ghosted" \notin st.flags
         /\ "weaver.mark" \notin st.inventory )
       => /\ ghost.state = st
          /\ ~ghost.raised
          /\ ghost.msg = "Ghost protocol requires weaver.mark."

\* splice has just been refused for two missing items, the third was held.
C10_Witness ==
  /\ pc = "loop"
  /\ last.cmd = "run"
  /\ last.msg = "Splice failed. Missing: "
  /\ last.a = <<"badge.sig", "mask.dat">>
  /\ "weaver.mark" \in st.inventory

\* The idempotence guard of a script: what it has already brought about.
GuardHolds(state, script_id) ==
  CASE script_id = "spoof" -> "mask.dat" \in state.inventory
    [] script_id = "sniffer" -> "sniffer_run" \in state.flags
    [] script_id = "splice" -> "token.key" \in state.inventory
    [] script_id = "ghost" -> "ghosted" \in state.flags
    [] script_id = "fork" -> "forked" \in state.flags
    [] OTHER -> FALSE

\* C11: running spoof, sniffer, splice, ghost or fork where its guard
\* already holds leaves every field of the state as it was, log and
\* discovered included.
C11_RetriggerIsNoOp ==
  pc = "loop" =>
    \A id \in {"spoof", "sniffer", "splice", "ghost", "fork"} :
      GuardHolds(st, id) =>
        /\ run_script(st, id).state = st
        /\ ~run_script(st, id).raised
        /\ cmd_run(st, <<id>>).state = st

\* sniffer has just been run again after it had swept.
C11_Witness ==
  /\ pc = "loop"
  /\ last.cmd = "run"
  /\ last.msg = "Sniffer already swept the quiet bands."
  /\ "sniffer_run" \in st.flags

\* The state main starts the loop with when nothing is loaded, for the
\* handle start_state hands to fresh_state.
FreshStart(handle) == enter_node(fresh_state(handle), "hub.home")

\* C12: from the fresh state at hub.home, whatever the handle, run tracer sets trace_open and
\* discovers market.node and perimeter.gate, reporting both as new; run
\* tracer again reports none as new, leaves flags, inventory and discovered
\* as after the first run, and both nodes still meet requirements_for.
C12_TracerTwice ==
  pc = "loop" /\ st = FreshStart(st.handle) =>
    LET r1 == cmd_run(st, <<"tracer">>)
        r2 == cmd_run(r1.state, <<"tracer">>)
    IN
    /\ r1.state.flags = {"trace_open"}
    /\ r1.state.discovered = {"hub.home", "market.node", "perimeter.gate"}
    /\ r1.a = <<"market.node", "perimeter.gate">>
    /\ r2.a = <<>>
    /\ r2.state.flags = r1.state.flags
    /\ r2.state.inventory = r1.state.inventory
    /\ r2.state.discovered = r1.state.discovered
    /\ requirements_for(r2.state, "market.node").ok
    /\ requirements_for(r2.state, "perimeter.gate").ok

\* tracer has just run a second time from the fresh state of a player who
\* gave a name.
C12_Witness ==
  /\ pc = "loop"
  /\ st.handle = Neo
  /\ last.cmd = "run"
  /\ last.msg = "Tracer online. Mesh resolved."
  /\ last.a = <<>>
  /\ st.log = <<"Entered hub.home", "Tracer mapped the perimeter",
                "Tracer mapped the perimeter">>
  /\ st.discovered = {"hub.home", "market.node", "perimeter.gate"}

\* The table of script effects: the flag set, the item added, the nodes
\* discovered.
EffectFlags(script_id) ==
  CASE script_id = "tracer" -> {"trace_open"}
    [] script_id = "sniffer" -> {"sniffer_run"}
    [] script_id = "ghost" -> {"ghosted"}
    [] script_id = "fork" -> {"forked"}
    [] OTHER -> {}

EffectItems(script_id) ==
  CASE script_id = "spoof" -> {"mask.dat"}
    [] script_id = "splice" -> {"token.key"}
    [] OTHER -> {}

EffectNodes(script_id) ==
  CASE script_id = "tracer" -> {"market.node", "perimeter.gate"}
    [] script_id = "sniffer" -> {"weaver.den", "corp.audit", "lattice.cache"}
    [] script_id = "ghost" -> {"corp.audit"}
    [] script_id = "fork" -> {"core.relic"}
    [] OTHER -> {}

\* The script is applied: it is one of the six, its guard does not hold and
\* its precondition does.
Applies(state, script_id) ==
  /\ script_id \in SCRIPTS
  /\ ~GuardHolds(state, script_id)
  /\ script_id = "splice" => Range(SpliceNeeds) \subseteq state.inventory
  /\ script_id = "ghost" => "weaver.mark" \in state.inventory

\* C13: a script that is applied has exactly the effect of the table: its
\* flag or item is added, discovered gains exactly the listed nodes, one log
\* entry is appended, and handle, location, scripts, visited, last_cipher
\* and ended stay as they were.
C13_ScriptEffects ==
  pc = "loop" =>
    \A id \in {"tracer", "spoof", "sniffer", "splice", "ghost", "fork"} :
      Applies(st, id) =>
        LET t == run_script(st, id).state IN
        /\ t.flags = st.flags \cup EffectFlags(id)
        /\ t.inventory = st.inventory \cup EffectItems(id)
        /\ t.discovered = st.discovered \cup EffectNodes(id)
        /\ Len(t.log) = Len(st.log) + 1
        /\ SubSeq(t.log, 1, Len(st.log)) = st.log
        /\ t.handle = st.handle
        /\ t.location = st.location
        /\ t.scripts = st.scripts
        /\ t.visited = st.visited
        /\ t.last_cipher = st.last_cipher
        /\ t.ended = st.ended

\* fork has just been applied at the archive: forked is set and core.relic
\* is the one node newly discovered.
C13_Witness ==
  /\ pc = "loop"
  /\ last.cmd = "run"
  /\ last.msg = "Relay forked. Core channel exposed."
  /\ last.a = <<"core.relic">>
  /\ "forked" \in st.flags
  /\ st.log[Len(st.log)] = "Forked the relay to the core"

\* What requirements_for is to return for every node, and that a state
\* differing in every field but inventory and flags gets the same result.
\* A cached cipher that no file of the game holds, and another handle.
OtherCipher == Codes("x")

OtherHandle == Codes("other")

RequirementsMet(state) ==
  \A n \in NodeIds :
    LET r == requirements_for(state, n)
        elsewhere == [fresh_state(OtherHandle) EXCEPT !.inventory = state.inventory,
                                                  !.flags = state.flags,
                                                  !.location = "core.relic",
                                                  !.scripts = SCRIPTS,
                                                  !.discovered = NodeIds,
                                                  !.visited = NodeIds,
                                                  !.log = <<"x">>,
                                                  !.last_cipher = Some(OtherCipher),
                                                  !.ended = ~state.ended]
    IN
    /\ r.ok <=> /\ \A i \in 1..Len(NODES[n].items) : NODES[n].items[i] \in state.inventory
                /\ \A i \in 1..Len(NODES[n].flags) : NODES[n].flags[i] \in state.flags
    /\ r.missing_items = SelectSeq(NODES[n].items, LAMBDA x : x \notin state.inventory)
    /\ r.missing_flags = SelectSeq(NODES[n].flags, LAMBDA x : x \notin state.flags)
    /\ requirements_for(elsewhere, n) = r

\* The flags the game sets.
FlagIds ==
  {"trace_open", "sniffer_run", "ghosted", "forked", "ember_phrase", "lattice_sigil"}

\* C14: for every node N, requirements_for(state, N) is ok iff every
\* required item of N is held and every required flag of N is set; the
\* missing lists are the unmet requirements in declared order; and the
\* result is the same for a state that agrees on inventory and flags and
\* differs in every other field. It is checked on the state at every prompt
\* and, at the first prompt, on every inventory and every set of flags.
C14_RequirementsFor ==
  pc = "loop" =>
    /\ RequirementsMet(st)
    /\ last.cmd = "main" =>
         \A inv \in SUBSET ITEMS, fl \in SUBSET FlagIds :
           RequirementsMet([st EXCEPT !.inventory = inv, !.flags = fl])

\* connect has just been refused at lattice.cache with one of its two items
\* held: the report names the other item and the flag.
C14_Witness ==
  /\ pc = "loop"
  /\ last.cmd = "connect"
  /\ last.msg = "Access denied. Missing"
  /\ last.a = <<"token.key">>
  /\ last.b = <<"lattice_sigil">>
  /\ "weaver.mark" \in st.inventory

\* Id lists handed to discover: those of the scripts, the empty list, and a
\* list that repeats an id and names an id that is no node.
DiscoverArgs ==
  { <<>>,
    <<"market.node", "perimeter.gate">>,
    <<"weaver.den", "corp.audit", "lattice.cache">>,
    <<"corp.audit">>,
    <<"core.relic">>,
    <<"core.relic", "void.node", "core.relic">> }

\* The ids of the list that are not in the set, each at its first place.
FirstNew(ids, set) ==
  LET keep(i) == ids[i] \notin set /\ \A j \in 1..(i - 1) : ids[j] # ids[i]
      idx == SelectSeq([i \in 1..Len(ids) |-> i], keep)
  IN [k \in 1..Len(idx) |-> ids[idx[k]]]

\* C15: discover never removes a member of discovered, returns exactly the
\* ids that were not yet discovered in input order and changes no other
\* field; a second call with the same ids leaves discovered as it is and
\* returns the empty list.
C15_DiscoverIdempotent ==
  pc = "loop" =>
    \A ids \in DiscoverArgs :
      LET d == discover(st, ids)
          again == discover(d.state, ids)
      IN
      /\ st.discovered \subseteq d.state.discovered
      /\ d.state = [st EXCEPT !.discovered = @ \cup Range(ids)]
      /\ d.added = FirstNew(ids, st.discovered)
      /\ again.state = d.state
      /\ again.added = <<>>

\* tracer has just run where its nodes, and others, were discovered before:
\* nothing is reported as new and nothing was dropped.
C15_Witness ==
  /\ pc = "loop"
  /\ last.cmd = "run"
  /\ last.msg = "Tracer online. Mesh resolved."
  /\ last.a = <<>>
  /\ {"market.node", "perimeter.gate", "weaver.den", "lattice.cache"} \subseteq st.discovered

\* word in text.upper(): the whole text is put in upper case, which may
\* lengthen it, and then searched.
HasWord(text, word) ==
  LET up == upper(text) IN
  \E i \in 1..Len(up) :
    /\ i + Len(word) - 1 <= Len(up)
    /\ \A j \in 1..Len(word) : up[i + j - 1] = word[j]

\* For the argument lists and caches of the model: the keywords in the
\* decoded text, the cipher kind as typed (lower case), and whether a
\* non-blank payload was typed. Computed once.
KeywordTable ==
  [a \in DecodeArgs, c \in LastCiphers |->
     [ember |-> HasWord(DecodeTable[a, c].text, EMBER),
      lattice |-> HasWord(DecodeTable[a, c].text, LATTICE)]]

ArgTable ==
  [a \in DecodeArgs \ {<<>>} |->
     [kind |-> lower(a[1]),
      given |-> Len(a) > 1 /\ strip(join(Tail(a))) # <<>>]]

\* The decode of the key as typed by the player, and the text it shows.
SigilArgs == <<Codes("base64"), key_b64>>

SigilText == Codes("SIGIL: LATTICE")

\* C16: after a successful decode, ember_phrase is set, with one log entry,
\* iff the decoded text contains EMBER (letter case aside) and the flag was
\* unset; lattice_sigil likewise for LATTICE; both fire from one decode when
\* both hold; nothing else changes, so a decode whose keywords' flags are
\* set changes no field. Decoding U0lHSUw6IExBVFRJQ0U= as base64 yields
\* SIGIL: LATTICE.
C16_DecodeUnlocks ==
  pc = "loop" =>
    /\ cmd_decode(st, SigilArgs).a = <<SigilText>>
    /\ \A args \in DecodeArgs :
         LET r == cmd_decode(st, args)
             k == KeywordTable[args, st.last_cipher]
             ember == k.ember /\ "ember_phrase" \notin st.flags
             lattice == k.lattice /\ "lattice_sigil" \notin st.flags
         IN r.msg = "Decoded:" =>
              r.state =
                [st EXCEPT
                   !.flags = (@ \cup IF ember THEN {"ember_phrase"} ELSE {})
                               \cup IF lattice THEN {"lattice_sigil"} ELSE {},
                   !.log = (@ \o IF ember THEN <<"Decoded ember phrase">> ELSE <<>>)
                             \o IF lattice THEN <<"Decoded lattice sigil">> ELSE <<>>]

\* The text that decode rot rzore ynggvpr shows.
EmberLatticeText == Codes("ember lattice")

\* One decode has just set both flags, each with its log entry.
C16_Witness ==
  /\ pc = "loop"
  /\ last.cmd = "decode"
  /\ last.a = <<EmberLatticeText>>
  /\ {"ember_phrase", "lattice_sigil"} \subseteq st.flags
  /\ Len(st.log) >= 2
  /\ SubSeq(st.log, Len(st.log) - 1, Len(st.log))
       = <<"Decoded ember phrase", "Decoded lattice sigil">>

\* The lines a failed decode shows.
DecodeFailures ==
  {"Unknown cipher. Use rot13 or b64.",
   "No cached cipher. Read a cipher file first.",
   "Base64 decode failed."}

\* A decode of malformed base64 and a decode with an unknown cipher kind.
MalformedArgs == Words(<<"b64", "U0lH!">>)

UnknownKindArgs == Words(<<"hex", "rzore">>)

\* C17: a decode that ends in UnknownCipher, NoCachedCipher or DecodeError
\* changes no field of the state. Without a payload typed and with
\* last_cipher unset it ends in NoCachedCipher; malformed base64 ends in
\* DecodeError.
C17_FailedDecodeKeepsState ==
  pc = "loop" =>
    /\ \A args \in DecodeArgs :
         LET r == cmd_decode(st, args) IN
         /\ ~r.raised
         /\ r.msg \in DecodeFailures => r.state = st
         /\ ( /\ args # <<>>
              /\ ~ArgTable[args].given
              /\ st.last_cipher \in {None, Some(<<>>)} )
            => r.msg = "No cached cipher. Read a cipher file first."
    /\ cmd_decode(st, MalformedArgs).msg = "Base64 decode failed."
    /\ cmd_decode(st, UnknownKindArgs).msg = "Unknown cipher. Use rot13 or b64."

\* A decode of malformed base64 has just failed in a state that holds a
\* cached cipher and flags.
C17_Witness ==
  /\ pc = "loop"
  /\ last.cmd = "decode"
  /\ last.msg = "Base64 decode failed."
  /\ st.last_cipher = Some(key_b64)
  /\ st.flags # {}

\* C18: decode with a cipher kind that is none of rot13, rot, r13, b64,
\* base64 ends in UnknownCipher, whatever the payload (typed or not) and
\* whatever last_cipher (set or unset).
C18_UnknownCipherAlways ==
  pc = "loop" =>
    \A args \in DecodeArgs \ {<<>>} :
      ArgTable[args].kind \notin Rot13Names \cup B64Names
        => cmd_decode(st, args).msg = "Unknown cipher. Use rot13 or b64."

\* C19: rejected commands leave every field of the state as it was: connect
\* to a node that is not discovered; connect to a discovered node whose gate
\* is unmet, which reports exactly the missing items and flags; cat or
\* download of a file name the current node does not have; download of a
\* file that is not downloadable; download of a script or item already
\* owned.
C19_RejectedKeepState ==
  pc = "loop" =>
    /\ \A args \in ConnectArgs \ {<<>>} :
         LET n == args[1]
             r == cmd_connect(st, args)
         IN
         /\ n \notin st.discovered =>
              r.state = st /\ ~r.raised /\ r.msg = "No signal by that name."
         /\ ( /\ n \in st.discovered
              /\ n \in NodeIds
              /\ \/ \E i \in 1..Len(NODES[n].items) : NODES[n].items[i] \notin st.inventory
                 \/ \E i \in 1..Len(NODES[n].flags) : NODES[n].flags[i] \notin st.flags )
            => /\ r.state = st
               /\ ~r.raised
               /\ r.msg = "Access denied. Missing"
               /\ r.a = SelectSeq(NODES[n].items, LAMBDA x : x \notin st.inventory)
               /\ r.b = SelectSeq(NODES[n].flags, LAMBDA x : x \notin st.flags)
    /\ \A args \in FileArgs(st) \ {<<>>} :
         LET f == args[1]
             files == NODES[st.location].files
             cat == cmd_cat(st, args)
             down == cmd_download(st, args)
         IN
         /\ f \notin DOMAIN files =>
              /\ cat.state = st /\ ~cat.raised /\ cat.msg = "File not found."
              /\ down.state = st /\ ~down.raised /\ down.msg = "File not found."
         /\ f \in DOMAIN files /\ ~files[f].downloadable =>
              down.state = st /\ down.msg = "Nothing to download here."
         /\ ( /\ f \in DOMAIN files
              /\ files[f].downloadable
              /\ files[f].kind = "script"
              /\ files[f].id \in st.scripts )
            => down.state = st /\ down.msg = "Script already in your kit."
         /\ ( /\ f \in DOMAIN files
              /\ files[f].downloadable
              /\ files[f].kind = "item"
              /\ files[f].id \in st.inventory )
            => down.state = st /\ down.msg = "Item already in your kit."

\* download of an item already held has just been refused.
C19_Witness ==
  /\ pc = "loop"
  /\ last.cmd = "download"
  /\ last.msg = "Item already in your kit."
  /\ "weaver.mark" \in st.inventory

\* C20: run accepts a script iff its id is in the kit or a script file with
\* that id is at the current node; a script that is only at the node has
\* the effect it has when owned and the kit stays as it was; an id that is
\* neither owned nor at the node, or an owned id without a defined effect,
\* leaves every field of the state as it was.
C20_RunAcceptance ==
  pc = "loop" =>
    \A args \in RunArgs \ {<<>>} :
      LET id == StripDotS(args[1])
          r == cmd_run(st, args)
          owned == cmd_run([st EXCEPT !.scripts = @ \cup {id}], args)
      IN
      /\ ~r.raised
      /\ r.msg # "Script not found in your kit or this node." <=> Runnable(st, id)
      /\ Runnable(st, id) /\ id \notin st.scripts =>
           /\ r.state = [owned.state EXCEPT !.scripts = st.scripts]
           /\ r.msg = owned.msg
           /\ r.a = owned.a
           /\ r.tip
      /\ ~Runnable(st, id) => r.state = st
      /\ id \in st.scripts /\ id \notin SCRIPTS =>
           r.state = st /\ r.msg = "Script returned no response."

\* tracer has just been run from the node's file without being in the kit.
C20_Witness ==
  /\ pc = "loop"
  /\ last.cmd = "run"
  /\ last.tip
  /\ last.msg = "Tracer online. Mesh resolved."
  /\ "tracer" \notin st.scripts
  /\ "trace_open" \in st.flags

\* The first sequence is a prefix of the second.
IsPrefix(p, q) == Len(p) <= Len(q) /\ SubSeq(q, 1, Len(p)) = p

\* C21: under every command other than load, inventory, scripts, discovered
\* and visited only grow and the log before is a prefix of the log after.
C21_OnlyGrows ==
  [][pc' = "loop" /\ last'.cmd # "load" =>
       /\ st.inventory \subseteq st'.inventory
       /\ st.scripts \subseteq st'.scripts
       /\ st.discovered \subseteq st'.discovered
       /\ st.visited \subseteq st'.visited
       /\ IsPrefix(st.log, st'.log)]_vars

\* A download has just added a script to a kit and a log that held entries.
C21_Witness ==
  /\ pc = "loop"
  /\ last.cmd = "download"
  /\ last.msg = "Downloaded script: fork"
  /\ {"fork", "splice"} \subseteq st.scripts
  /\ Len(st.log) = 3
  /\ st.log[3] = "Downloaded script fork"

\* What run shows when tracer, sniffer, ghost or fork has been applied.
DiscoveringRuns ==
  {"Tracer online. Mesh resolved.",
   "Sniffer pulse complete.",
   "Ghost protocol active. Your trail is cold.",
   "Relay forked. Core channel exposed."}

\* C22: discovered changes only by run applying tracer, sniffer, ghost or
\* fork, and by load; connect, home, cat, download, decode, exfiltrate and
\* restore leave it as it was, the links of a node entered are not added;
\* and archives.arc, which no script discovers, is in discovered in no state
\* of a play from the fresh state that loads only what it saved, nor among
\* what any such play can obtain.
C22_DiscoveryByScripts ==
  /\ [](pc = "loop" =>
          /\ "archives.arc" \notin st.discovered
          /\ last.cmd = "main" => "archives.arc" \notin Quest(st).discovered)
  /\ [][pc' = "loop" /\ st'.discovered # st.discovered =>
          \/ last'.cmd = "load"
          \/ last'.cmd = "run" /\ last'.msg \in DiscoveringRuns]_vars

\* The player has just entered perimeter.gate, which links to archives.arc:
\* archives.arc is not discovered.
C22_Witness ==
  /\ pc = "loop"
  /\ last.cmd = "connect"
  /\ st.location = "perimeter.gate"
  /\ st.log[Len(st.log)] = "Entered perimeter.gate"
  /\ "archives.arc" \notin st.discovered

\* C23: at every prompt of a play from the fresh state that loads only what
\* it saved, the state meets the entry requirements of the node the player
\* is at, whatever command came last.
C23_GateHoldsEverywhere == pc = "loop" => requirements_for(st, st.location).ok

\* The player is inside corp.audit, which asks for the ghosted flag, and has
\* downloaded relay.shard there.
C23_Witness ==
  /\ pc = "loop"
  /\ st.location = "corp.audit"
  /\ NODES["corp.audit"].flags = <<"ghosted">>
  /\ last.cmd = "download"
  /\ "relay.shard" \in st.inventory
  /\ "ghosted" \in st.flags

\* What splice and ghost leave behind: the token comes with the three items
\* splice asks for, the ghosted flag with the item ghost asks for.
HoldsParts(state) ==
  /\ "token.key" \in state.inventory =>
       {"badge.sig", "mask.dat", "weaver.mark"} \subseteq state.inventory
  /\ "ghosted" \in state.flags => "weaver.mark" \in state.inventory

\* C24: at every prompt of a play from the fresh state that loads only what
\* it saved, whoever holds token.key holds badge.sig, mask.dat and
\* weaver.mark as well, and whoever has the ghosted flag holds weaver.mark;
\* running splice or ghost there keeps it so.
C24_SpliceAndGhostTraces ==
  pc = "loop" =>
    /\ HoldsParts(st)
    /\ \A id \in {"splice", "ghost"} : HoldsParts(run_script(st, id).state)

\* splice has been run again after the token was forged and the trail
\* ghosted: the token, its three parts and the flag are all there.
C24_Witness ==
  /\ pc = "loop"
  /\ last.cmd = "run"
  /\ last.msg = "Token already forged."
  /\ "ghosted" \in st.flags
  /\ {"token.key", "badge.sig", "mask.dat", "weaver.mark"} \subseteq st.inventory

\* How many entries of the log are the given text.
Entries(log, text) == Cardinality({i \in 1..Len(log) : log[i] = text})

\* C25: at every prompt of a play from the fresh state that loads only what
\* it saved, the location is a visited node, every visited node is
\* discovered, and the log holds exactly one "Entered N" entry for each
\* visited node N and none for a node not visited.
C25_VisitedBookkeeping ==
  pc = "loop" =>
    /\ st.location \in st.visited
    /\ st.visited \subseteq st.discovered
    /\ \A n \in NodeIds :
         Entries(st.log, "Entered " \o n) = IF n \in st.visited THEN 1 ELSE 0

\* home has brought the player back to the hub, visited before, after four
\* other nodes were entered: the log has its one entry for the hub.
C25_Witness ==
  /\ pc = "loop"
  /\ last.cmd = "home"
  /\ st.location = "hub.home"
  /\ Cardinality(st.visited) >= 5
  /\ Entries(st.log, "Entered hub.home") = 1
  /\ st.log[1] = "Entered hub.home"

====
